---- MODULE Spec2Model ----
(***************************************************************************)
(* Model of youtube_to_mp3_yt_dlp.py: the batch orchestrator               *)
(* (process_tracks), the configuration loaders (load_config,               *)
(* load_all_configs) and the tag schema mapper                             *)
(* (extract_metadata_from_info).                                           *)
(*                                                                         *)
(* Python values are modelled as follows: None (and a key that is absent   *)
(* from a dict, which dict.get turns into None) is the string None; text   *)
(* is a TLA+ string; external effects (network, file system, subprocess)   *)
(* are nondeterministic choices over the outcomes the code distinguishes.  *)
(***************************************************************************)
EXTENDS Integers, Sequences, FiniteSets, TLC

VARIABLES
    pc,                 \* position of the run in main / process_tracks
    config,             \* the loaded configuration: [tracks, default_destination]
    save_local,         \* process_tracks argument (args.local)
    apply_metadata,     \* process_tracks argument (not args.no_metadata)
    all_mode,           \* process_tracks argument (args.all)
    i,                  \* enumerate index of the item being handled (0 before the loop)
    failed_downloads,   \* the failure tally of process_tracks
    successful_downloads,
    file_path,          \* download_audio result: the staged mp3 ("" when none)
    metadata,           \* download_audio result: the tag record of the item
    thumbnail_path,     \* download_thumbnail result (None when not fetched)
    metadata_success,   \* apply_metadata_to_mp3 result
    scratch,            \* items whose temporary directory exists on disk
    report,             \* outputs/failed_downloads.txt as written by save_failed_downloads
    steps,              \* history: the steps executed so far for item i, in order
    blame,              \* history: blame[k] is the item whose handling appended failed_downloads[k]
    delivered,          \* history: items for which successful_downloads was incremented
    outputs,            \* the files put under outputs/ or on the server, with their folder
    inputs,             \* the files the loaders read (single config file, inputs/ tree)
    args_all,           \* args.all as parsed by main
    ffmpeg,             \* whether shutil.which('ffmpeg') finds the transcoder
    info,               \* a source record handed to extract_metadata_from_info
    mapped,             \* the result of extract_metadata_from_info(info)
    fetch,              \* an activation of download_thumbnail and the file it writes
    tagging,            \* an mp3 file and the activations of apply_metadata_to_mp3 on it
    filename,           \* a file name handed to sanitize_filename
    sanitized,          \* the results of sanitize_filename(filename) in the two scripts
    transfer,           \* an activation of transfer_to_server and the directory it works in
    watch               \* a URL handed to the pytube download_audio and what it makes of it

vars == <<pc, config, save_local, apply_metadata, all_mode, i, failed_downloads,
          successful_downloads, file_path, metadata, thumbnail_path,
          metadata_success, scratch, report, steps, blame, delivered, outputs,
          inputs, args_all, ffmpeg, info, mapped, fetch, tagging, filename, sanitized,
          transfer, watch>>

procVars == <<i, failed_downloads, successful_downloads, file_path, metadata,
              thumbnail_path, metadata_success, scratch, report, steps, blame,
              delivered, outputs>>
loadVars == <<inputs, args_all, ffmpeg>>
metaVars == <<info, mapped>>
helperVars == <<fetch, tagging, filename, sanitized, transfer, watch>>

\* Python's None; also what dict.get returns for an absent key.
None == "None"

\* Python truthiness of a text-or-None value.
Truthy(v) == v # None /\ v # ""

(***************************************************************************)
(* Bounds of the model.                                                    *)
(***************************************************************************)
MaxTracks == 2
MaxPresent == 2
MaxFiles == 2
MaxLoadTracks == 2

SeqsUpTo(S, n) == UNION {[1..k -> S] : k \in 0..n}

(***************************************************************************)
(* Python values of a source record.  Every value is a record              *)
(*   t : "absent" (key not in the dict), "none", "str", "int", "float",    *)
(*       "list" or "dict"                                                  *)
(*   s : the text of a str                                                 *)
(*   n : the number of an int; a float x is n = x * FloatScale             *)
(*   l : the elements of a list                                            *)
(***************************************************************************)
FloatScale == 10 * 1000

Absent == [t |-> "absent", s |-> "", n |-> 0, l |-> <<>>]
PyNone == [t |-> "none", s |-> "", n |-> 0, l |-> <<>>]
PyStr(x) == [t |-> "str", s |-> x, n |-> 0, l |-> <<>>]
PyInt(k) == [t |-> "int", s |-> "", n |-> k, l |-> <<>>]
PyFloat(k) == [t |-> "float", s |-> "", n |-> k, l |-> <<>>]
PyList(q) == [t |-> "list", s |-> "", n |-> 0, l |-> q]
\* A thumbnail descriptor {'url': u, 'width': w, 'height': h}.
Thumb(u, w, h) == [t |-> "dict", url |-> u, width |-> w, height |-> h]

\* dict.get(key): an absent key reads as None.
Get(v) == IF v.t = "absent" THEN PyNone ELSE v
\* dict.get(key, default)
GetDefault(v, d) == IF v.t = "absent" THEN d ELSE v

\* bool(v)
IsTrue(v) ==
    CASE v.t \in {"absent", "none"} -> FALSE
      [] v.t = "str" -> v.s # ""
      [] v.t \in {"int", "float"} -> v.n # 0
      [] v.t = "list" -> Len(v.l) > 0
      [] OTHER -> TRUE

(***************************************************************************)
(* Text helpers.                                                           *)
(***************************************************************************)
Digits == {"0", "1", "2", "3", "4", "5", "6", "7", "8", "9"}

CharAt(s, k) == SubSeq(s, k, k)

DigitVal(c) ==
    CASE c = "0" -> 0 [] c = "1" -> 1 [] c = "2" -> 2 [] c = "3" -> 3
      [] c = "4" -> 4 [] c = "5" -> 5 [] c = "6" -> 6 [] c = "7" -> 7
      [] c = "8" -> 8 [] c = "9" -> 9

AllDigits(s) == \A k \in 1..Len(s) : CharAt(s, k) \in Digits

RECURSIVE ParseNat(_)
ParseNat(s) ==
    IF s = "" THEN 0
    ELSE 10 * ParseNat(SubSeq(s, 1, Len(s) - 1)) + DigitVal(CharAt(s, Len(s)))

\* s[:k]
Prefix(s, k) == SubSeq(s, 1, IF k < Len(s) THEN k ELSE Len(s))

\* needle in s
Contains(s, needle) ==
    \E k \in 1..(Len(s) - Len(needle) + 1) : SubSeq(s, k, k + Len(needle) - 1) = needle

LowerChar(c) ==
    CASE c = "A" -> "a" [] c = "B" -> "b" [] c = "C" -> "c" [] c = "D" -> "d"
      [] c = "E" -> "e" [] c = "F" -> "f" [] c = "G" -> "g" [] c = "H" -> "h"
      [] c = "I" -> "i" [] c = "J" -> "j" [] c = "K" -> "k" [] c = "L" -> "l"
      [] c = "M" -> "m" [] c = "N" -> "n" [] c = "O" -> "o" [] c = "P" -> "p"
      [] c = "Q" -> "q" [] c = "R" -> "r" [] c = "S" -> "s" [] c = "T" -> "t"
      [] c = "U" -> "u" [] c = "V" -> "v" [] c = "W" -> "w" [] c = "X" -> "x"
      [] c = "Y" -> "y" [] c = "Z" -> "z" [] OTHER -> c

\* str.lower()
RECURSIVE Lower(_)
Lower(s) == IF s = "" THEN "" ELSE LowerChar(CharAt(s, 1)) \o Lower(SubSeq(s, 2, Len(s)))

\* s * k for a str s
RECURSIVE Repeat(_, _)
Repeat(s, k) ==
    IF k = 0 THEN "" ELSE IF k = 1 THEN s
    ELSE Repeat(s, k \div 2) \o Repeat(s, k - (k \div 2))

\* a number below 1000 as exactly three digits
Pad3(k) == IF k < 10 THEN "00" \o ToString(k) ELSE IF k < 100 THEN "0" \o ToString(k) ELSE ToString(k)
Pad2(k) == IF k < 10 THEN "0" \o ToString(k) ELSE ToString(k)

\* f"{k:,}" for an int k
RECURSIVE Commas(_)
Commas(k) ==
    IF k < 0 THEN "-" \o Commas(0 - k)
    ELSE IF k < 1000 THEN ToString(k)
    ELSE Commas(k \div 1000) \o "," \o Pad3(k % 1000)

(***************************************************************************)
(* datetime.strptime(s, '%Y%m%d') and strftime('%Y-%m-%d').                *)
(* _strptime turns the format into the regular expression                  *)
(*   (?P<Y>\d\d\d\d)(?P<m>1[0-2]|0[1-9]|[1-9])                             *)
(*   (?P<d>3[0-1]|[1-2]\d|0[1-9]|[1-9]| [1-9])                             *)
(* matches it at the start of the text (first alternative first), then     *)
(* rejects text that was not consumed entirely, a year 0 and a day the     *)
(* month does not have.                                                    *)
(***************************************************************************)
OneToNine == Digits \ {"0"}

\* length matched by (?P<d>...) at the start of r, 0 when it does not match
DayMatchLen(r) ==
    LET a == CharAt(r, 1)
        b == IF Len(r) >= 2 THEN CharAt(r, 2) ELSE ""
    IN  IF r = "" THEN 0
        ELSE IF a = "3" /\ b \in {"0", "1"} THEN 2
        ELSE IF a \in {"1", "2"} /\ b \in Digits THEN 2
        ELSE IF a = "0" /\ b \in OneToNine THEN 2
        ELSE IF a \in OneToNine THEN 1
        ELSE IF a = " " /\ b \in OneToNine THEN 2
        ELSE 0

\* the lengths (?P<m>...) can match at the start of r, in the order tried
MonthMatchLens(r) ==
    LET a == IF Len(r) >= 1 THEN CharAt(r, 1) ELSE ""
        b == IF Len(r) >= 2 THEN CharAt(r, 2) ELSE ""
    IN  (IF a = "1" /\ b \in {"0", "1", "2"} THEN <<2>> ELSE <<>>)
        \o (IF a = "0" /\ b \in OneToNine THEN <<2>> ELSE <<>>)
        \o (IF a \in OneToNine THEN <<1>> ELSE <<>>)

IsLeap(y) == (y % 4 = 0 /\ y % 100 # 0) \/ y % 400 = 0

DaysInMonth(y, m) ==
    IF m = 2 THEN (IF IsLeap(y) THEN 29 ELSE 28)
    ELSE IF m \in {4, 6, 9, 11} THEN 30 ELSE 31

NoDate == [ok |-> FALSE, year |-> 0, month |-> 0, day |-> 0]

Strptime(s) ==
    IF Len(s) < 4 \/ ~AllDigits(SubSeq(s, 1, 4)) THEN NoDate
    ELSE
      LET rest == SubSeq(s, 5, Len(s))
          lens == MonthMatchLens(rest)
          fits == {k \in 1..Len(lens) :
                      DayMatchLen(SubSeq(rest, lens[k] + 1, Len(rest))) > 0}
      IN  IF fits = {} THEN NoDate
          ELSE
            LET k == CHOOSE x \in fits : \A z \in fits : x <= z
                ml == lens[k]
                dtext == SubSeq(rest, ml + 1, Len(rest))
                dl == DayMatchLen(dtext)
                y == ParseNat(SubSeq(s, 1, 4))
                m == ParseNat(SubSeq(rest, 1, ml))
                dday == IF CharAt(dtext, 1) = " " THEN ParseNat(SubSeq(dtext, 2, 2))
                        ELSE ParseNat(SubSeq(dtext, 1, dl))
            IN  IF ml + dl # Len(rest) THEN NoDate         \* unconverted data remains
                ELSE IF y = 0 THEN NoDate                  \* year 0 is out of range
                ELSE IF dday > DaysInMonth(y, m) THEN NoDate
                ELSE [ok |-> TRUE, year |-> y, month |-> m, day |-> dday]

Pad4(k) == IF k < 1000 THEN "0" \o Pad3(k) ELSE ToString(k)

\* strftime('%Y-%m-%d'): the C library decides whether %Y is zero-padded.
Strftime(d, pads) ==
    (IF pads THEN Pad4(d.year) ELSE ToString(d.year))
        \o "-" \o Pad2(d.month) \o "-" \o Pad2(d.day)

(***************************************************************************)
(* extract_metadata_from_info, one operator per group of tag fields.  Each *)
(* yields [raised, ...]: raised is TRUE when the Python code raises.       *)
(***************************************************************************)
\* str(v), as an f-string formats it
Format(v) ==
    CASE v.t = "str" -> v.s
      [] v.t \in {"none", "absent"} -> "None"
      [] v.t = "int" -> ToString(v.n)

DateFields(upload_date, pads) ==
    IF ~IsTrue(upload_date)
    THEN [raised |-> FALSE, date |-> Absent, year |-> Absent]
    ELSE IF upload_date.t = "str"
    THEN LET d == Strptime(upload_date.s)
         IN  IF d.ok
             THEN [raised |-> FALSE, date |-> PyStr(Strftime(d, pads)),
                   year |-> PyStr(ToString(d.year))]
             ELSE [raised |-> FALSE, date |-> upload_date,
                   year |-> IF Len(upload_date.s) >= 4
                            THEN PyStr(Prefix(upload_date.s, 4)) ELSE PyNone]
    ELSE IF upload_date.t = "list"
    THEN [raised |-> FALSE, date |-> upload_date,
          year |-> IF Len(upload_date.l) >= 4
                   THEN PyList(SubSeq(upload_date.l, 1, 4)) ELSE PyNone]
    \* strptime raises TypeError; the handler's len(upload_date) raises again
    ELSE [raised |-> TRUE, date |-> upload_date, year |-> Absent]

Keywords == <<"music", "song", "pop", "rock", "hip hop", "electronic", "jazz", "classical">>

\* the keyword test without tag.lower()
IsMusicTagCaseSensitive(tag) == \E k \in 1..Len(Keywords) : Contains(tag.s, Keywords[k])

IsMusicTag(tag) == \E k \in 1..Len(Keywords) : Contains(Lower(tag.s), Keywords[k])

GenreField(categories, tags) ==
    IF IsTrue(categories)
    THEN CASE categories.t = "list" -> [raised |-> FALSE, genre |-> categories.l[1]]
           [] categories.t = "str" -> [raised |-> FALSE, genre |-> PyStr(CharAt(categories.s, 1))]
           [] OTHER -> [raised |-> TRUE, genre |-> Absent]
    ELSE IF IsTrue(tags)
    THEN CASE tags.t = "list" ->
                IF \E k \in 1..Len(tags.l) : tags.l[k].t # "str"
                THEN [raised |-> TRUE, genre |-> Absent]
                ELSE LET hits == {k \in 1..Len(tags.l) : IsMusicTag(tags.l[k])}
                     IN  [raised |-> FALSE,
                          genre |-> IF hits = {} THEN PyStr("Music")
                                    ELSE tags.l[CHOOSE x \in hits : \A z \in hits : x <= z]]
           [] tags.t = "str" -> [raised |-> FALSE, genre |-> PyStr("Music")]
           [] OTHER -> [raised |-> TRUE, genre |-> Absent]
    ELSE [raised |-> FALSE, genre |-> PyStr("Music")]

TrackNumberField(playlist_index) ==
    IF IsTrue(playlist_index) THEN PyStr(Format(playlist_index)) ELSE Absent

RECURSIVE StripZeros(_)
StripZeros(s) ==
    IF Len(s) > 1 /\ CharAt(s, 1) = "0" THEN StripZeros(SubSeq(s, 2, Len(s))) ELSE s

\* the floats x = k / FloatScale used here whose double product x * 1000 lies
\* just below the exact product (1.001 * 1000 is 1000.9999999999999)
FloatShortfall(k) == IF k = 10010 THEN 1 ELSE 0

\* str(int(duration * 1000))
LengthField(duration) ==
    IF ~IsTrue(duration) THEN [raised |-> FALSE, length |-> Absent]
    ELSE CASE duration.t = "int" ->
                [raised |-> FALSE, length |-> PyStr(ToString(duration.n * 1000))]
           [] duration.t = "float" ->
                [raised |-> FALSE,
                 length |-> PyStr(ToString(((duration.n * 1000) \div FloatScale)
                                              - FloatShortfall(duration.n)))]
           [] duration.t = "str" ->
                IF AllDigits(duration.s)
                THEN [raised |-> FALSE, length |-> PyStr(StripZeros(Repeat(duration.s, 1000)))]
                ELSE [raised |-> TRUE, length |-> Absent]
           [] OTHER -> [raised |-> TRUE, length |-> Absent]

CommentLimit == 3000

DescriptionComment(description) ==
    IF ~IsTrue(description) THEN [raised |-> FALSE, comment |-> Absent]
    ELSE CASE description.t = "str" ->
                [raised |-> FALSE,
                 comment |-> IF Len(description.s) > CommentLimit
                             THEN PyStr(Prefix(description.s, CommentLimit))
                             ELSE description]
           [] description.t \in {"int", "float"} -> [raised |-> TRUE, comment |-> Absent]

\* f"{count:,}"
CountText(count) ==
    CASE count.t = "int" -> [raised |-> FALSE, text |-> Commas(count.n)]
      [] OTHER -> [raised |-> TRUE, text |-> ""]

CommentField(description, view_count, like_count) ==
    LET base == DescriptionComment(description)
        views == IF IsTrue(view_count) THEN CountText(view_count)
                 ELSE [raised |-> FALSE, text |-> ""]
        likes == IF IsTrue(like_count) THEN CountText(like_count)
                 ELSE [raised |-> FALSE, text |-> ""]
        additional_info ==
            (IF IsTrue(view_count) THEN <<"Views: " \o views.text>> ELSE <<>>)
            \o (IF IsTrue(like_count) THEN <<"Likes: " \o likes.text>> ELSE <<>>)
        stats_info == IF Len(additional_info) = 2
                      THEN additional_info[1] \o " | " \o additional_info[2]
                      ELSE additional_info[1]
    IN  IF base.raised \/ views.raised \/ likes.raised
        THEN [raised |-> TRUE, comment |-> Absent]
        ELSE IF additional_info = <<>> THEN base
        ELSE IF IsTrue(base.comment)
        THEN [raised |-> FALSE,
              comment |-> PyStr(base.comment.s \o "\n\n[Stats: " \o stats_info \o "]")]
        ELSE [raised |-> FALSE, comment |-> PyStr("[Stats: " \o stats_info \o "]")]

\* x.get('height', 0) * x.get('width', 0)
Area(x) == GetDefault(x.height, PyInt(0)).n * GetDefault(x.width, PyInt(0)).n

AreaRaises(x) ==
    \/ GetDefault(x.height, PyInt(0)).t # "int"
    \/ GetDefault(x.width, PyInt(0)).t # "int"

\* the selection that takes the first descriptor of the list
ThumbnailFieldFirstEntry(thumbnail, thumbnails) ==
    IF IsTrue(thumbnail) THEN [raised |-> FALSE, thumbnail_url |-> thumbnail]
    ELSE IF ~IsTrue(thumbnails) THEN [raised |-> FALSE, thumbnail_url |-> thumbnail]
    ELSE IF thumbnails.t # "list" THEN [raised |-> TRUE, thumbnail_url |-> Absent]
    ELSE IF \E k \in 1..Len(thumbnails.l) : AreaRaises(thumbnails.l[k])
    THEN [raised |-> TRUE, thumbnail_url |-> Absent]
    ELSE [raised |-> FALSE, thumbnail_url |-> Get(thumbnails.l[1].url)]

ThumbnailField(thumbnail, thumbnails) ==
    IF IsTrue(thumbnail) THEN [raised |-> FALSE, thumbnail_url |-> thumbnail]
    ELSE IF ~IsTrue(thumbnails) THEN [raised |-> FALSE, thumbnail_url |-> thumbnail]
    ELSE IF thumbnails.t # "list" THEN [raised |-> TRUE, thumbnail_url |-> Absent]
    ELSE IF \E k \in 1..Len(thumbnails.l) : AreaRaises(thumbnails.l[k])
    THEN [raised |-> TRUE, thumbnail_url |-> Absent]
    ELSE LET best == {k \in 1..Len(thumbnails.l) :
                        \A z \in 1..Len(thumbnails.l) :
                            Area(thumbnails.l[z]) <= Area(thumbnails.l[k])}
             \* max() returns the first of the maximal items
             k == CHOOSE x \in best : \A z \in best : x <= z
         IN  [raised |-> FALSE, thumbnail_url |-> Get(thumbnails.l[k].url)]

NoMetadata ==
    [title |-> Absent, artist |-> Absent, album |-> Absent, albumartist |-> Absent,
     date |-> Absent, year |-> Absent, genre |-> Absent, tracknumber |-> Absent,
     length |-> Absent, comment |-> Absent, composer |-> Absent,
     thumbnail_url |-> Absent, webpage_url |-> Absent]

extract_metadata_from_info(rec, pads) ==
    LET artist == GetDefault(rec.uploader, PyStr("Unknown Artist"))
        playlist_title == Get(rec.playlist_title)
        dates == DateFields(Get(rec.upload_date), pads)
        genre == GenreField(GetDefault(rec.categories, PyList(<<>>)),
                            GetDefault(rec.tags, PyList(<<>>)))
        length == LengthField(Get(rec.duration))
        comment == CommentField(GetDefault(rec.description, PyStr("")),
                                Get(rec.view_count), Get(rec.like_count))
        thumb == ThumbnailField(Get(rec.thumbnail), GetDefault(rec.thumbnails, PyList(<<>>)))
    IN  IF dates.raised \/ genre.raised \/ length.raised \/ comment.raised \/ thumb.raised
        THEN [raised |-> TRUE, md |-> NoMetadata]
        ELSE [raised |-> FALSE,
              md |-> [title |-> GetDefault(rec.title, PyStr("Unknown Title")),
                      artist |-> artist,
                      album |-> IF IsTrue(playlist_title) THEN playlist_title
                                ELSE PyStr(Format(artist) \o " - YouTube"),
                      albumartist |-> artist,
                      date |-> dates.date,
                      year |-> dates.year,
                      genre |-> genre.genre,
                      tracknumber |-> TrackNumberField(Get(rec.playlist_index)),
                      length |-> length.length,
                      comment |-> comment.comment,
                      composer |-> GetDefault(rec.uploader, PyStr("")),
                      thumbnail_url |-> thumb.thumbnail_url,
                      webpage_url |-> GetDefault(rec.webpage_url, PyStr(""))]]

(***************************************************************************)
(* Source records: what yt-dlp's extract_info may hand to the mapper.      *)
(* A record has at most MaxPresent of its keys present.                    *)
(***************************************************************************)
Fields == <<"title", "uploader", "playlist_title", "upload_date", "categories",
            "tags", "playlist_index", "duration", "description", "view_count",
            "like_count", "thumbnail", "thumbnails", "webpage_url">>

UploadDates ==
    {"20230615", "2023615", "202311", "2023111", "202306 5", "20231301",
     "20230229", "20240229", "09990101", "00000101", "202306150", "2023061",
     "2023", "20230", "bad", "abcd", "2023-06-15", "x"}

SmallThumb == Thumb(PyStr("http://i/small.jpg"), PyInt(120), PyInt(90))
LargeThumb == Thumb(PyStr("http://i/large.jpg"), PyInt(640), PyInt(480))
WideThumb == Thumb(PyStr("http://i/wide.jpg"), PyInt(480), PyInt(640))

\* a description one character longer than the comment limit
LongDescription == Repeat("d", CommentLimit) \o "e"

Present(f) ==
    CASE f = "title" -> {PyNone, PyStr(""), PyStr("T")}
      [] f = "uploader" -> {PyNone, PyStr(""), PyStr("U")}
      [] f = "playlist_title" -> {PyNone, PyStr(""), PyStr("Mix")}
      [] f = "upload_date" ->
            {PyNone, PyStr(""), PyInt(20230615)} \cup {PyStr(d) : d \in UploadDates}
      [] f = "categories" ->
            {PyNone, PyList(<<>>), PyList(<<PyStr("Comedy")>>),
             PyList(<<PyStr("Comedy"), PyStr("Music")>>), PyList(<<PyStr("")>>),
             PyList(<<PyNone>>)}
      [] f = "tags" ->
            {PyNone, PyList(<<>>), PyList(<<PyStr("funny")>>),
             PyList(<<PyStr("funny"), PyStr("rock anthem")>>),
             PyList(<<PyStr("Pop Hits"), PyStr("jazz")>>),
             PyList(<<PyStr("funny"), PyInt(5)>>)}
      [] f = "playlist_index" -> {PyNone, PyInt(0), PyInt(3)}
      [] f = "duration" ->
            {PyNone, PyInt(0), PyInt(125), PyFloat(1254000), PyFloat(15), PyFloat(10010),
             PyStr("abc")}
      [] f = "description" ->
            {PyNone, PyStr(""), PyStr("Desc"), PyStr(LongDescription), PyInt(5)}
      [] f = "view_count" -> {PyNone, PyInt(0), PyInt(1234567), PyStr("5")}
      [] f = "like_count" -> {PyNone, PyInt(0), PyInt(890)}
      [] f = "thumbnail" -> {PyNone, PyStr(""), PyStr("http://i/best.jpg")}
      [] f = "thumbnails" ->
            {PyNone, PyList(<<>>), PyList(<<SmallThumb, LargeThumb>>),
             PyList(<<LargeThumb, WideThumb, SmallThumb>>),
             PyList(<<Thumb(PyStr("http://i/bare.jpg"), Absent, Absent)>>),
             PyList(<<Thumb(Absent, PyInt(1), PyInt(1))>>),
             PyList(<<SmallThumb, Thumb(PyStr("http://i/null.jpg"), PyNone, PyNone)>>)}
      [] f = "webpage_url" -> {PyNone, PyStr("http://v/1")}

NoInfo == [f \in {Fields[k] : k \in 1..Len(Fields)} |-> Absent]

FieldNames == {Fields[k] : k \in 1..Len(Fields)}

\* the values of key f in a record whose present keys are those of S
Choices(f, S) == IF f \in S THEN Present(f) ELSE {Absent}

\* the records whose present keys are exactly those of S
InfosWith(S) ==
    [title : Choices("title", S), uploader : Choices("uploader", S),
     playlist_title : Choices("playlist_title", S),
     upload_date : Choices("upload_date", S), categories : Choices("categories", S),
     tags : Choices("tags", S), playlist_index : Choices("playlist_index", S),
     duration : Choices("duration", S), description : Choices("description", S),
     view_count : Choices("view_count", S), like_count : Choices("like_count", S),
     thumbnail : Choices("thumbnail", S), thumbnails : Choices("thumbnails", S),
     webpage_url : Choices("webpage_url", S)]

\* the sets of at most MaxPresent keys
PresentKeys == {S \in SUBSET FieldNames : Cardinality(S) <= MaxPresent}

(***************************************************************************)
(* Track lists and configurations.  A track entry is a JSON value: a       *)
(* mapping with an optional url and an optional destination label, or      *)
(* something that is not a mapping (isdict = FALSE).                       *)
(***************************************************************************)
DictTrack(u, d) == [isdict |-> TRUE, url |-> u, destination |-> d]
DictTracks ==
    {DictTrack(None, None), DictTrack("u1", None), DictTrack("u2", "Rock")}
NonDictTrack == [isdict |-> FALSE, url |-> None, destination |-> None]
TrackUniverse == DictTracks \cup {NonDictTrack}

\* what load_config accepts: any list under 'tracks'
AcceptedConfigs ==
    [tracks : SeqsUpTo(TrackUniverse, MaxTracks), default_destination : {None, "Podcasts"}]

\* what load_all_configs returns
CombinedConfigs ==
    [tracks : {q \in SeqsUpTo(DictTracks, MaxTracks) :
                  Len(q) > 0 /\ \A k \in 1..Len(q) : Truthy(q[k].url)},
     default_destination : {"Music"}]

(***************************************************************************)
(* Configuration documents.  kind is what reading the file gives:          *)
(*   "missing"   open() raises                                             *)
(*   "badjson"   json.load raises                                          *)
(*   "nonobject" valid JSON that is not an object                          *)
(*   "nolist"    an object whose 'tracks' is absent or not a list          *)
(*   "ok"        an object with a 'tracks' list                            *)
(* template tells whether the file name contains "template".               *)
(***************************************************************************)
BadKinds == {"missing", "badjson", "nonobject", "nolist"}

Doc(kind, list, dflt, template) ==
    [kind |-> kind, tracks |-> list, default_destination |-> dflt, template |-> template]

\* the track entries of the files under inputs/ (labels play no part in all mode)
FileTracks == {NonDictTrack, DictTrack(None, None), DictTrack("u1", None),
               DictTrack("u2", "Rock")}

\* the documents holding at most n track entries
DocsUpTo(n) ==
    {Doc(k, <<>>, None, FALSE) : k \in {"badjson", "nolist"}}
        \cup {Doc("ok", q, None, FALSE) : q \in SeqsUpTo(FileTracks, n)}
        \cup (IF n > 0 THEN {Doc("ok", <<DictTrack("u1", None)>>, None, TRUE)} ELSE {})

\* the file lists of at most n documents holding at most budget entries in all
RECURSIVE FileLists(_, _)
FileLists(n, budget) ==
    IF n = 0 THEN {<<>>}
    ELSE {<<>>} \cup
         UNION {{<<d>> \o rest : rest \in FileLists(n - 1, budget - Len(d.tracks))} :
                    d \in DocsUpTo(budget)}

\* the single configuration files
SingleDocs ==
    {Doc(k, <<>>, None, FALSE) : k \in BadKinds}
        \cup {Doc("ok", q, d, FALSE) :
                q \in SeqsUpTo(TrackUniverse, MaxLoadTracks), d \in {None, "Podcasts"}}

NoConfig == [tracks |-> <<>>, default_destination |-> None]

(***************************************************************************)
(* load_config: the configuration, or exit when the file cannot be read    *)
(* or holds no 'tracks' list.                                              *)
(***************************************************************************)
\* a loader that takes a document without a 'tracks' list for an empty one
load_config_lenient(doc) ==
    IF doc.kind \in {"ok", "nolist"}
    THEN [exit |-> FALSE,
          config |-> [tracks |-> doc.tracks, default_destination |-> doc.default_destination]]
    ELSE [exit |-> TRUE, config |-> NoConfig]

load_config(doc) ==
    IF doc.kind = "ok"
    THEN [exit |-> FALSE,
          config |-> [tracks |-> doc.tracks, default_destination |-> doc.default_destination]]
    ELSE [exit |-> TRUE, config |-> NoConfig]

(***************************************************************************)
(* load_all_configs                                                        *)
(***************************************************************************)
\* for track in config['tracks']: if track.get('url'): all_tracks.append(track)
\* An entry that is not a mapping raises; what was appended before it stays.
\* the loop without its "if track.get('url')" filter
RECURSIVE AppendTracksUnfiltered(_, _)
AppendTracksUnfiltered(all_tracks, list) ==
    IF list = <<>> THEN [all_tracks |-> all_tracks, raised |-> FALSE]
    ELSE LET t == Head(list)
         IN  IF ~t.isdict THEN [all_tracks |-> all_tracks, raised |-> TRUE]
             ELSE AppendTracksUnfiltered(Append(all_tracks, t), Tail(list))

RECURSIVE AppendTracks(_, _)
AppendTracks(all_tracks, list) ==
    IF list = <<>> THEN [all_tracks |-> all_tracks, raised |-> FALSE]
    ELSE LET t == Head(list)
         IN  IF ~t.isdict THEN [all_tracks |-> all_tracks, raised |-> TRUE]
             ELSE AppendTracks(IF Truthy(t.url) THEN Append(all_tracks, t) ELSE all_tracks,
                               Tail(list))

\* one pass of the loop over json_files, for the file at position k
LoadFile(json_files, k, acc) ==
    LET doc == json_files[k]
    IN  IF doc.template THEN acc                               \* skip template files
        ELSE IF doc.kind \in {"missing", "badjson"} THEN acc    \* except: continue
        ELSE IF doc.kind # "ok" THEN acc                       \* invalid structure: skip
        ELSE LET r == AppendTracks(acc.all_tracks, doc.tracks)
             IN  IF r.raised
                 THEN [all_tracks |-> r.all_tracks, processed_files |-> acc.processed_files]
                 ELSE [all_tracks |-> r.all_tracks,
                       processed_files |-> Append(acc.processed_files, k)]

RECURSIVE LoadFiles(_, _, _)
LoadFiles(json_files, k, acc) ==
    IF k > Len(json_files) THEN acc
    ELSE LoadFiles(json_files, k + 1, LoadFile(json_files, k, acc))

\* json_files: inputs/*.json, then inputs/additions/*.json
JsonFiles(inp) == inp.files \o inp.additions

load_all_configs(inp) ==
    IF ~inp.dir THEN [exit |-> TRUE, config |-> NoConfig, processed_files |-> <<>>]
    ELSE LET r == LoadFiles(JsonFiles(inp), 1, [all_tracks |-> <<>>, processed_files |-> <<>>])
         IN  IF r.all_tracks = <<>>
             THEN [exit |-> TRUE, config |-> NoConfig, processed_files |-> <<>>]
             ELSE [exit |-> FALSE,
                   config |-> [tracks |-> r.all_tracks, default_destination |-> "Music"],
                   processed_files |-> r.processed_files]


(***************************************************************************)
(* process_tracks                                                          *)
(***************************************************************************)
tracks == config.tracks
track == tracks[i]

\* config.get('default_destination', 'Music')
default_destination ==
    IF config.default_destination = None THEN "Music" ELSE config.default_destination

\* a destination that lets the track's own label win over all mode
DestinationOfLabelFirst(t) ==
    IF t.destination # None THEN t.destination
    ELSE IF all_mode THEN "." ELSE default_destination

\* track.get('destination', default_destination), overridden in all mode
DestinationOf(t) ==
    IF all_mode THEN "."
    ELSE IF t.destination = None THEN default_destination ELSE t.destination

destination == DestinationOf(track)

\* datetime.now(): the clock is read while item i is being handled
now == i

FailureRecord(url, dest, msg, k, at) ==
    [url |-> url, destination |-> dest, error |-> [msg |-> msg, track |-> k],
     timestamp |-> at]

\* failed_downloads.append({...}) while handling item k
RecordFailure(url, dest, msg, k) ==
    /\ failed_downloads' = Append(failed_downloads, FailureRecord(url, dest, msg, k, now))
    /\ blame' = Append(blame, k)

NoFailure == UNCHANGED <<failed_downloads, blame>>

Step(name) == steps' = Append(steps, name)

\* enumerate hands out the next item: its step history starts
FirstStep == steps' = <<"enumerate">>

itemLocals == <<file_path, metadata, thumbnail_path, metadata_success>>

ResetLocals ==
    /\ file_path' = ""
    /\ metadata' = NoMetadata
    /\ thumbnail_path' = None
    /\ metadata_success' = FALSE

fixedVars == <<config, save_local, apply_metadata, all_mode, inputs, args_all, ffmpeg,
               info, mapped, helperVars>>

\* for i, track in enumerate(tracks, 1): track.get on an entry that is not a
\* mapping raises AttributeError outside every try block
IterMalformed ==
    /\ pc = "loop" /\ i < Len(tracks)
    /\ ~tracks[i + 1].isdict
    /\ i' = i + 1
    /\ pc' = "traceback"
    /\ FirstStep
    /\ NoFailure
    /\ UNCHANGED <<successful_downloads, itemLocals, scratch, report, delivered, outputs, fixedVars>>

\* if not url: ... continue
IterMissingUrl ==
    /\ pc = "loop" /\ i < Len(tracks)
    /\ tracks[i + 1].isdict /\ ~Truthy(tracks[i + 1].url)
    /\ i' = i + 1
    /\ pc' = "loop"
    /\ FirstStep
    /\ failed_downloads' = Append(failed_downloads,
            FailureRecord("N/A", DestinationOf(tracks[i + 1]), "Missing URL", 0, i + 1))
    /\ blame' = Append(blame, i + 1)
    /\ UNCHANGED <<successful_downloads, itemLocals, scratch, report, delivered, outputs, fixedVars>>

IterStart ==
    /\ pc = "loop" /\ i < Len(tracks)
    /\ tracks[i + 1].isdict /\ Truthy(tracks[i + 1].url)
    /\ i' = i + 1
    /\ pc' = "mkdtemp"
    /\ FirstStep
    /\ NoFailure
    /\ UNCHANGED <<successful_downloads, itemLocals, scratch, report, delivered, outputs, fixedVars>>

\* with tempfile.TemporaryDirectory() as temp_dir
MakeTempDir ==
    /\ pc = "mkdtemp"
    /\ scratch' = scratch \cup {i}
    /\ pc' = "download"
    /\ Step("mkdtemp")
    /\ NoFailure
    /\ UNCHANGED <<i, successful_downloads, itemLocals, report, delivered, outputs, fixedVars>>

\* mkdtemp raises: caught by the outermost per-item handler
MakeTempDirRaises ==
    /\ pc = "mkdtemp"
    /\ pc' = "loop"
    /\ Step("mkdtemp")
    /\ RecordFailure(track.url, destination, "Unexpected error processing track", i)
    /\ UNCHANGED <<i, successful_downloads, itemLocals, scratch, report, delivered, outputs, fixedVars>>

(***************************************************************************)
(* download_audio: yt-dlp's extract_info (download and transcode), then    *)
(* the tag schema mapper, then the search for the mp3 in the scratch       *)
(* directory.  Every exception is caught inside and turned into a False    *)
(* result.                                                                 *)
(***************************************************************************)
PipelineInfos ==
    {[NoInfo EXCEPT !.title = PyStr("T"), !.thumbnail = PyStr("http://i/best.jpg")],
     [NoInfo EXCEPT !.title = PyStr("T"), !.uploader = PyStr("U")],
     [NoInfo EXCEPT !.title = PyStr("T"), !.upload_date = PyInt(20230615)],
     NoInfo}

\* '%(title)s.mp3' as found by glob('*.mp3')
OutputFile(rec) == (IF rec.title.t = "str" THEN rec.title.s ELSE "NA") \o ".mp3"

\* (success, file_path, metadata) for a source record and whether the mp3 exists
DownloadResult(rec, mp3, pads) ==
    LET r == extract_metadata_from_info(rec, pads)
    IN  IF r.raised \/ rec.title.t = "absent" \/ ~mp3
        THEN [success |-> FALSE, file_path |-> "", metadata |-> NoMetadata]
        ELSE [success |-> TRUE, file_path |-> OutputFile(rec), metadata |-> r.md]

\* a download that goes on to the save step without the metadata steps
AfterDownloadSkippingTags(res) ==
    /\ file_path' = res.file_path
    /\ metadata' = res.metadata
    /\ IF ~res.success \/ res.file_path = ""
       THEN /\ RecordFailure(track.url, destination, "Download failed for track", i)
            /\ pc' = "cleanup"
            /\ UNCHANGED <<thumbnail_path, metadata_success>>
       ELSE /\ NoFailure
            /\ metadata_success' = FALSE
            /\ thumbnail_path' = None
            /\ pc' = "save"

\* what follows a download: a failed one is recorded and the item is left
AfterDownload(res) ==
    /\ file_path' = res.file_path
    /\ metadata' = res.metadata
    /\ IF ~res.success \/ res.file_path = ""
       THEN /\ RecordFailure(track.url, destination, "Download failed for track", i)
            /\ pc' = "cleanup"
            /\ UNCHANGED <<thumbnail_path, metadata_success>>
       ELSE /\ NoFailure
            /\ metadata_success' = FALSE
            /\ thumbnail_path' = None
            /\ pc' = IF apply_metadata THEN "thumbnail" ELSE "save"

\* ydl.extract_info raises (network error, unavailable video, no ffmpeg)
DownloadRaises ==
    /\ pc = "download"
    /\ Step("download")
    /\ AfterDownload([success |-> FALSE, file_path |-> "", metadata |-> NoMetadata])
    /\ UNCHANGED <<i, successful_downloads, scratch, report, delivered, outputs, fixedVars>>

DownloadAudio ==
    /\ pc = "download"
    /\ \E rec \in PipelineInfos, mp3 \in BOOLEAN, pads \in BOOLEAN :
          AfterDownload(DownloadResult(rec, mp3, pads))
    /\ steps' = steps \o <<"download", "map">>
    /\ UNCHANGED <<i, successful_downloads, scratch, report, delivered, outputs, fixedVars>>

\* if metadata.get('thumbnail_url'): download_thumbnail(...) returns a path or None
FetchThumbnail ==
    /\ pc = "thumbnail"
    /\ IsTrue(metadata.thumbnail_url)
    /\ \E fetched \in BOOLEAN :
          thumbnail_path' = IF fetched THEN "thumbnail.jpg" ELSE None
    /\ pc' = "tag"
    /\ Step("thumbnail")
    /\ NoFailure
    /\ UNCHANGED <<i, successful_downloads, file_path, metadata, metadata_success,
                   scratch, report, delivered, outputs, fixedVars>>

SkipThumbnail ==
    /\ pc = "thumbnail"
    /\ ~IsTrue(metadata.thumbnail_url)
    /\ pc' = "tag"
    /\ NoFailure
    /\ UNCHANGED <<i, successful_downloads, itemLocals, scratch, report, steps,
                   delivered, outputs, fixedVars>>

\* metadata_success = apply_metadata_to_mp3(file_path, metadata, thumbnail_path)
ApplyMetadata ==
    /\ pc = "tag"
    /\ \E ok \in BOOLEAN : metadata_success' = ok
    /\ pc' = "save"
    /\ Step("tag")
    /\ NoFailure
    /\ UNCHANGED <<i, successful_downloads, file_path, metadata, thumbnail_path,
                   scratch, report, delivered, outputs, fixedVars>>

\* where save_to_local_outputs(file_path, destination) or, in remote mode,
\* transfer_to_server(file_path, destination) put the file of item k
Saved(k, dest) ==
    [item |-> k, root |-> IF save_local THEN "outputs" ELSE "remote", folder |-> dest]

\* save_to_local_outputs / transfer_to_server returned True
SaveSucceeds ==
    /\ pc = "save"
    /\ successful_downloads' = successful_downloads + 1
    /\ delivered' = delivered \cup {i}
    /\ outputs' = outputs \cup {Saved(i, destination)}
    /\ pc' = "cleanup"
    /\ Step("save")
    /\ NoFailure
    /\ UNCHANGED <<i, itemLocals, scratch, report, fixedVars>>

\* save_to_local_outputs / transfer_to_server returned False
SaveFails ==
    /\ pc = "save"
    /\ RecordFailure(track.url, destination,
                     IF save_local THEN "Failed to save track to local outputs"
                     ELSE "Failed to transfer track", i)
    /\ pc' = "cleanup"
    /\ Step("save")
    /\ UNCHANGED <<i, successful_downloads, itemLocals, scratch, report, delivered, outputs,
                   fixedVars>>

\* transfer_to_server raises before its own try block (Path.exists)
SaveRaises ==
    /\ pc = "save"
    /\ ~save_local
    /\ RecordFailure(track.url, destination, "Save/transfer error for track", i)
    /\ pc' = "cleanup"
    /\ Step("save")
    /\ UNCHANGED <<i, successful_downloads, itemLocals, scratch, report, delivered, outputs,
                   fixedVars>>

\* TemporaryDirectory.__exit__ removes the scratch directory
Cleanup ==
    /\ pc = "cleanup"
    /\ scratch' = scratch \ {i}
    /\ pc' = "loop"
    /\ Step("cleanup")
    /\ ResetLocals
    /\ NoFailure
    /\ UNCHANGED <<i, successful_downloads, report, delivered, outputs, fixedVars>>

\* TemporaryDirectory.__exit__ raises (a file of the directory cannot be
\* removed): the exception reaches the outermost per-item handler
CleanupRaises ==
    /\ pc = "cleanup"
    /\ pc' = "loop"
    /\ Step("cleanup")
    /\ ResetLocals
    /\ RecordFailure(track.url, destination, "Unexpected error processing track", i)
    /\ UNCHANGED <<i, successful_downloads, scratch, report, delivered, outputs, fixedVars>>

\* the report as save_failed_downloads writes it
ReportOf(failed) ==
    [total |-> Len(failed),
     entries |-> [k \in 1..Len(failed) |->
                    [number |-> k, url |-> failed[k].url,
                     destination |-> failed[k].destination,
                     error |-> failed[k].error, timestamp |-> failed[k].timestamp]]]

NoReport == [total |-> 0, entries |-> <<>>]

\* the summary after the loop; the success rate divides by len(tracks)
Summary ==
    /\ pc = "loop" /\ i = Len(tracks)
    /\ pc' = IF Len(tracks) = 0 THEN "traceback"
             ELSE IF failed_downloads # <<>> THEN "report" ELSE "returned"
    /\ UNCHANGED steps
    /\ NoFailure
    /\ UNCHANGED <<i, successful_downloads, itemLocals, scratch, report, delivered, outputs,
                   fixedVars>>

save_failed_downloads ==
    /\ pc = "report"
    /\ \E written \in BOOLEAN :
          report' = IF written THEN ReportOf(failed_downloads) ELSE NoReport
    /\ pc' = "returned"
    /\ UNCHANGED steps
    /\ NoFailure
    /\ UNCHANGED <<i, successful_downloads, itemLocals, scratch, delivered, outputs, fixedVars>>

ProcessNext ==
    \/ IterMalformed \/ IterMissingUrl \/ IterStart
    \/ MakeTempDir \/ MakeTempDirRaises
    \/ DownloadRaises \/ DownloadAudio
    \/ FetchThumbnail \/ SkipThumbnail \/ ApplyMetadata
    \/ SaveSucceeds \/ SaveFails \/ SaveRaises
    \/ Cleanup \/ CleanupRaises
    \/ Summary \/ save_failed_downloads

ProcInit ==
    /\ i = 0
    /\ failed_downloads = <<>>
    /\ successful_downloads = 0
    /\ file_path = ""
    /\ metadata = NoMetadata
    /\ thumbnail_path = None
    /\ metadata_success = FALSE
    /\ scratch = {}
    /\ report = NoReport
    /\ steps = <<>>
    /\ blame = <<>>
    /\ delivered = {}
    /\ outputs = {}

NoInputs == [single |-> Doc("missing", <<>>, None, FALSE), dir |-> FALSE, files |-> <<>>,
             additions |-> <<>>]

MetaIdle ==
    /\ info = NoInfo
    /\ mapped = [raised |-> FALSE, md |-> NoMetadata]

\* no activation of download_thumbnail
NoThumb ==
    [pc |-> "idle", url |-> None, requested |-> FALSE, response |-> "none",
     content_type |-> "", ext |-> "", size |-> 0, file |-> None, written |-> 0,
     write_error |-> FALSE, ret |-> None]

\* no mp3 file being tagged
NoTagging ==
    [pc |-> "idle", metadata |-> NoMetadata, cover |-> None, frames |-> {}, tags |-> {},
     before |-> {}, calls |-> 0, failure |-> "", saved |-> FALSE, ret |-> FALSE,
     first |-> {}, first_ok |-> FALSE]

\* no activation of transfer_to_server
NoTransfer ==
    [pc |-> "idle", file_path |-> "", remote_folder |-> "", dir |-> <<>>, before |-> <<>>,
     temp_file |-> "", copied |-> FALSE, scp |-> <<>>, returncode |-> -1, ret |-> FALSE]

\* no URL handed to the pytube download_audio
NoWatch == [pc |-> "idle", url |-> "", used |-> <<>>]

UploadIdle ==
    /\ transfer = NoTransfer
    /\ watch = NoWatch

HelpersIdle ==
    /\ fetch = NoThumb
    /\ tagging = NoTagging
    /\ filename = ""
    /\ sanitized = <<>>
    /\ UploadIdle

\* process_tracks as main calls it: with what load_config accepted, or in all
\* mode (always local) with what load_all_configs returned
Init ==
    /\ pc = "loop"
    /\ all_mode \in BOOLEAN
    /\ save_local \in (IF all_mode THEN {TRUE} ELSE BOOLEAN)
    /\ apply_metadata \in BOOLEAN
    /\ config \in (IF all_mode THEN CombinedConfigs ELSE AcceptedConfigs)
    /\ ProcInit
    /\ HelpersIdle
    /\ inputs = NoInputs
    /\ args_all = all_mode
    /\ ffmpeg = TRUE
    /\ MetaIdle

Next == ProcessNext

Spec == Init /\ [][Next]_vars

(***************************************************************************)
(* main: check_dependencies, then the loader the arguments select, then    *)
(* process_tracks.                                                         *)
(***************************************************************************)
\* check_dependencies: sys.exit(1) when ffmpeg is not on the PATH
check_dependencies ==
    /\ pc = "main"
    /\ pc' = IF ffmpeg THEN "load" ELSE "exit1"
    /\ UNCHANGED <<procVars, fixedVars>>

\* config = load_config(args.config); process_tracks(..., all_mode=False)
LoadConfig ==
    /\ pc = "load" /\ ~args_all
    /\ LET r == load_config(inputs.single)
       IN  /\ pc' = IF r.exit THEN "exit1" ELSE "loop"
           /\ config' = r.config
    /\ all_mode' = FALSE
    /\ UNCHANGED <<procVars, save_local, apply_metadata, inputs, args_all, ffmpeg,
                   info, mapped, helperVars>>

\* config, processed_files = load_all_configs(); args.local = True;
\* process_tracks(..., all_mode=True)
LoadAllConfigs ==
    /\ pc = "load" /\ args_all
    /\ LET r == load_all_configs(inputs)
       IN  /\ pc' = IF r.exit THEN "exit1" ELSE "loop"
           /\ config' = r.config
           /\ save_local' = IF r.exit THEN save_local ELSE TRUE
           /\ all_mode' = ~r.exit
    /\ UNCHANGED <<procVars, apply_metadata, inputs, args_all, ffmpeg, info, mapped,
                   helperVars>>

LoadNext == check_dependencies \/ LoadConfig \/ LoadAllConfigs

\* the start of main: the arguments are parsed and the files are what they are
InitLoad ==
    /\ pc = "main"
    /\ ffmpeg \in BOOLEAN
    /\ args_all \in BOOLEAN
    /\ save_local \in BOOLEAN
    /\ apply_metadata \in BOOLEAN
    /\ all_mode = FALSE
    /\ config = NoConfig
    /\ IF args_all
       THEN \/ inputs = NoInputs
            \/ \E list \in FileLists(MaxFiles, MaxLoadTracks) :
                  \E k \in 0..Len(list) :
                     inputs = [single |-> Doc("missing", <<>>, None, FALSE), dir |-> TRUE,
                               files |-> SubSeq(list, 1, k),
                               additions |-> SubSeq(list, k + 1, Len(list))]
       ELSE \E doc \in SingleDocs :
              inputs = [single |-> doc, dir |-> FALSE, files |-> <<>>, additions |-> <<>>]
    /\ ProcInit
    /\ MetaIdle
    /\ HelpersIdle

SpecLoad == InitLoad /\ [][LoadNext]_vars

(***************************************************************************)
(* The tag schema mapper on its own: a source record is mapped once.       *)
(***************************************************************************)
ExtractMetadata ==
    /\ pc = "extract"
    /\ \E pads \in BOOLEAN : mapped' = extract_metadata_from_info(info, pads)
    /\ pc' = "mapped"
    /\ UNCHANGED <<procVars, config, save_local, apply_metadata, all_mode, inputs,
                   args_all, ffmpeg, info, helperVars>>

InitMeta ==
    /\ pc = "extract"
    /\ \E S \in PresentKeys : info \in InfosWith(S)
    /\ mapped = [raised |-> FALSE, md |-> NoMetadata]
    /\ config = NoConfig
    /\ save_local = FALSE
    /\ apply_metadata = TRUE
    /\ all_mode = FALSE
    /\ args_all = FALSE
    /\ ffmpeg = TRUE
    /\ inputs = NoInputs
    /\ ProcInit
    /\ HelpersIdle

SpecMeta == InitMeta /\ [][ExtractMetadata]_vars

(***************************************************************************)
(* download_thumbnail(thumbnail_url, temp_dir): one HTTP request, the      *)
(* choice of the file extension, then the body written chunk by chunk to   *)
(* temp_dir/thumbnail<ext>.  Everything after the URL test runs inside one *)
(* try block whose handler returns None.                                   *)
(***************************************************************************)
MaxChunks == 2

\* the rest of the program's state, which the helper functions do not touch
mainVars == <<pc, config, save_local, apply_metadata, all_mode, procVars, loadVars,
              metaVars>>

\* the caller-supplied directory
TempDir == "tmp"

ThumbUrls ==
    {None, "", "http://i/a.jpg", "http://i/a.jpeg", "http://i/a.png", "http://i/a.webp",
     "http://i/a"}

\* response.headers.get('content-type', '')
ContentTypes == {"", "image/jpeg", "image/png", "image/webp", "text/html"}

\* what makes requests.get or raise_for_status raise
RequestFailures == {"connection", "timeout", "status"}

\* s.endswith(suffix)
EndsWith(s, suffix) ==
    /\ Len(s) >= Len(suffix)
    /\ SubSeq(s, Len(s) - Len(suffix) + 1, Len(s)) = suffix

\* the if / elif chain that determines the file extension
ImageExt(content_type, thumbnail_url) ==
    IF \/ Contains(content_type, "image/jpeg")
       \/ EndsWith(thumbnail_url, ".jpg") \/ EndsWith(thumbnail_url, ".jpeg")
    THEN ".jpg"
    ELSE IF Contains(content_type, "image/png") \/ EndsWith(thumbnail_url, ".png")
    THEN ".png"
    ELSE IF Contains(content_type, "image/webp") \/ EndsWith(thumbnail_url, ".webp")
    THEN ".webp"
    ELSE ".jpg"

\* Path(temp_dir) / f"thumbnail{ext}"
ThumbnailFile(ext) == TempDir \o "/thumbnail" \o ext

\* return None, from the URL test or from the exception handler
ThumbGivesUp(f) == [f EXCEPT !.pc = "returned", !.ret = None]

\* if not thumbnail_url: return None
ThumbNoUrl ==
    /\ fetch.pc = "call" /\ ~Truthy(fetch.url)
    /\ fetch' = ThumbGivesUp(fetch)
    /\ UNCHANGED <<mainVars, tagging, filename, sanitized, transfer, watch>>

\* requests.get raises (connection error, timeout) or raise_for_status does
ThumbRequestFails ==
    /\ fetch.pc = "call" /\ Truthy(fetch.url)
    /\ \E failure \in RequestFailures :
          fetch' = ThumbGivesUp([fetch EXCEPT !.requested = TRUE, !.response = failure])
    /\ UNCHANGED <<mainVars, tagging, filename, sanitized, transfer, watch>>

\* a success response arrives: its content type decides the extension
ThumbResponse ==
    /\ fetch.pc = "call" /\ Truthy(fetch.url)
    /\ \E ct \in ContentTypes, n \in 0..MaxChunks :
          fetch' = [fetch EXCEPT !.requested = TRUE, !.response = "ok",
                                 !.content_type = ct, !.size = n,
                                 !.ext = ImageExt(ct, fetch.url), !.pc = "open"]
    /\ UNCHANGED <<mainVars, tagging, filename, sanitized, transfer, watch>>

\* with open(thumbnail_path, 'wb') as f
ThumbOpen ==
    /\ fetch.pc = "open"
    /\ \E ok \in BOOLEAN :
          fetch' = IF ok
                   THEN [fetch EXCEPT !.file = ThumbnailFile(fetch.ext), !.pc = "write"]
                   ELSE ThumbGivesUp([fetch EXCEPT !.write_error = TRUE])
    /\ UNCHANGED <<mainVars, tagging, filename, sanitized, transfer, watch>>

\* for chunk in response.iter_content(chunk_size=8192): f.write(chunk)
ThumbWriteChunk ==
    /\ fetch.pc = "write" /\ fetch.written < fetch.size
    /\ \E ok \in BOOLEAN :
          fetch' = IF ok THEN [fetch EXCEPT !.written = fetch.written + 1]
                   ELSE ThumbGivesUp([fetch EXCEPT !.write_error = TRUE])
    /\ UNCHANGED <<mainVars, tagging, filename, sanitized, transfer, watch>>

\* a return that does not wait for the end of the body
ThumbReturnEarly ==
    /\ fetch.pc = "write"
    /\ fetch' = [fetch EXCEPT !.pc = "returned", !.ret = fetch.file]
    /\ UNCHANGED <<mainVars, tagging, filename, sanitized, transfer, watch>>

\* return str(thumbnail_path)
ThumbReturn ==
    /\ fetch.pc = "write" /\ fetch.written = fetch.size
    /\ fetch' = [fetch EXCEPT !.pc = "returned", !.ret = fetch.file]
    /\ UNCHANGED <<mainVars, tagging, filename, sanitized, transfer, watch>>

download_thumbnail ==
    \/ ThumbNoUrl \/ ThumbRequestFails \/ ThumbResponse
    \/ ThumbOpen \/ ThumbWriteChunk \/ ThumbReturn

\* the program is at rest while one of its helper functions is exercised
MainIdle ==
    /\ pc = "helper"
    /\ config = NoConfig
    /\ save_local = FALSE
    /\ apply_metadata = TRUE
    /\ all_mode = FALSE
    /\ args_all = FALSE
    /\ ffmpeg = TRUE
    /\ inputs = NoInputs
    /\ ProcInit
    /\ MetaIdle

InitThumb ==
    /\ MainIdle
    /\ \E u \in ThumbUrls : fetch = [NoThumb EXCEPT !.pc = "call", !.url = u]
    /\ tagging = NoTagging
    /\ filename = ""
    /\ sanitized = <<>>
    /\ UploadIdle

SpecThumb == InitThumb /\ [][download_thumbnail]_vars

(***************************************************************************)
(* apply_metadata_to_mp3(mp3_path, metadata, thumbnail_path): the file's   *)
(* ID3 tag is loaded, cleared, filled with one text frame per populated    *)
(* field and with the cover picture, and saved.  tagging.frames is the     *)
(* frame set of the file on disk, tagging.tags the one in memory           *)
(* (audio.tags).  A frame is [id, text]; a picture frame carries its MIME  *)
(* type as text.                                                           *)
(***************************************************************************)
MaxCalls == 2

\* the fields written as text frames, with their frame ids
TagFields ==
    <<"title", "artist", "album", "albumartist", "date", "genre", "tracknumber",
      "comment">>
FrameIds == <<"TIT2", "TPE1", "TALB", "TPE2", "TDRC", "TCON", "TRCK", "COMM">>

TagFieldNames == {TagFields[k] : k \in 1..Len(TagFields)}

\* a tag record whose fields of S are populated; the other text-frame fields
\* hold unset, and the fields no frame exists for are populated
TagRecord(S, unset) ==
    [f \in DOMAIN NoMetadata |->
        IF f \in S THEN PyStr("new " \o f)
        ELSE IF f \in TagFieldNames THEN unset
        ELSE PyStr("other " \o f)]

TagRecords ==
    {TagRecord(S, unset) :
        S \in {T \in SUBSET TagFieldNames : Cardinality(T) <= MaxPresent} \cup {TagFieldNames},
        unset \in {Absent, PyNone, PyStr("")}}

\* frames a file may hold before the call
OldFrames ==
    {[id |-> "TIT2", text |-> "old title"], [id |-> "TXXX", text |-> "old note"],
     [id |-> "APIC", text |-> "image/gif"]}

\* thumbnail_path values: none, and files in various conditions
Covers ==
    {None, "", "tmp/thumbnail.jpg", "tmp/thumbnail.PNG", "tmp/thumbnail.webp",
     "tmp/missing.jpg", "tmp/locked.jpg", "tmp/toolong.jpg"}

\* Path(thumbnail_path).exists(): True, False, or an OSError that is not one
\* of the not-found errors (a name longer than the system allows)
CoverStat(path) ==
    CASE path = "tmp/missing.jpg" -> "missing"
      [] path = "tmp/toolong.jpg" -> "raises"
      [] OTHER -> "present"

\* open(thumbnail_path, 'rb') and read() succeed
CoverReadable(path) == path # "tmp/locked.jpg"

\* the MIME type chosen from the lowercased suffix
CoverMime(path) ==
    IF EndsWith(Lower(path), ".png") THEN "image/png"
    ELSE IF EndsWith(Lower(path), ".webp") THEN "image/webp"
    ELSE "image/jpeg"

\* the frames added without audio.tags.clear(): a frame replaces the one of
\* the same id
TextFramesKeepingOld(md, tags) ==
    LET added == {k \in 1..Len(TagFields) : IsTrue(md[TagFields[k]])}
    IN  {fr \in tags : \A k \in added : fr.id # FrameIds[k]}
            \cup {[id |-> FrameIds[k], text |-> md[TagFields[k]].s] : k \in added}

\* audio.tags.clear(), then one add per populated field
TextFrames(md, tags) ==
    {[id |-> FrameIds[k], text |-> md[TagFields[k]].s] :
        k \in {z \in 1..Len(TagFields) : IsTrue(md[TagFields[z]])}}

\* return False from the exception handler
TagFails(t, step) == [t EXCEPT !.pc = "returned", !.ret = FALSE, !.failure = step]

\* audio = MP3(mp3_path, ID3=ID3)
TagOpen ==
    /\ tagging.pc = "call"
    /\ \E ok \in BOOLEAN :
          tagging' = IF ok THEN [tagging EXCEPT !.tags = tagging.frames, !.pc = "frames"]
                     ELSE TagFails(tagging, "open")
    /\ UNCHANGED <<mainVars, fetch, filename, sanitized, transfer, watch>>

\* a clearing that deletes the tag from the file as well (ID3.delete)
TagFramesDeleting ==
    /\ tagging.pc = "frames"
    /\ \E ok \in BOOLEAN :
          tagging' = IF ok
                     THEN [tagging EXCEPT !.tags = TextFrames(tagging.metadata, tagging.tags),
                                          !.frames = {},
                                          !.pc = "cover"]
                     ELSE TagFails([tagging EXCEPT !.tags = {}, !.frames = {}], "frames")
    /\ UNCHANGED <<mainVars, fetch, filename, sanitized, transfer, watch>>

\* clear() and the text frames, all on audio.tags in memory; building a frame
\* may raise, after the clearing
TagFrames ==
    /\ tagging.pc = "frames"
    /\ \E ok \in BOOLEAN :
          tagging' = IF ok
                     THEN [tagging EXCEPT !.tags = TextFrames(tagging.metadata, tagging.tags),
                                          !.pc = "cover"]
                     ELSE TagFails([tagging EXCEPT !.tags = {}], "frames")
    /\ UNCHANGED <<mainVars, fetch, filename, sanitized, transfer, watch>>

\* if thumbnail_path and Path(thumbnail_path).exists(): the picture frame, in
\* a try block of its own
TagCover ==
    /\ tagging.pc = "cover"
    /\ tagging' =
          IF ~Truthy(tagging.cover) \/ CoverStat(tagging.cover) = "missing"
          THEN [tagging EXCEPT !.pc = "save"]
          ELSE IF CoverStat(tagging.cover) = "raises" THEN TagFails(tagging, "cover")
          ELSE IF CoverReadable(tagging.cover)
          THEN [tagging EXCEPT
                   !.tags = {fr \in tagging.tags : fr.id # "APIC"}
                               \cup {[id |-> "APIC", text |-> CoverMime(tagging.cover)]},
                   !.pc = "save"]
          ELSE [tagging EXCEPT !.failure = "cover", !.pc = "save"]
    /\ UNCHANGED <<mainVars, fetch, filename, sanitized, transfer, watch>>

\* audio.save(); return True
TagSave ==
    /\ tagging.pc = "save"
    /\ \E ok \in BOOLEAN :
          tagging' = IF ok
                     THEN [tagging EXCEPT !.frames = tagging.tags, !.saved = TRUE,
                                          !.ret = TRUE, !.pc = "returned"]
                     ELSE TagFails(tagging, "save")
    /\ UNCHANGED <<mainVars, fetch, filename, sanitized, transfer, watch>>

\* the function is called once more on the same file with the same arguments
TagAgain ==
    /\ tagging.pc = "returned" /\ tagging.calls < MaxCalls
    /\ tagging' = [tagging EXCEPT !.pc = "call", !.calls = tagging.calls + 1,
                                  !.before = tagging.frames, !.failure = "",
                                  !.saved = FALSE, !.ret = FALSE,
                                  !.first = IF tagging.ret /\ ~tagging.first_ok
                                            THEN tagging.frames ELSE tagging.first,
                                  !.first_ok = tagging.first_ok \/ tagging.ret]
    /\ UNCHANGED <<mainVars, fetch, filename, sanitized, transfer, watch>>

apply_metadata_to_mp3 == TagOpen \/ TagFrames \/ TagCover \/ TagSave \/ TagAgain

InitTag ==
    /\ MainIdle
    /\ fetch = NoThumb
    /\ \E md \in TagRecords, cover \in Covers, old \in {{}, OldFrames} :
          tagging = [NoTagging EXCEPT !.pc = "call", !.metadata = md, !.cover = cover,
                                      !.frames = old, !.before = old, !.calls = 1]
    /\ filename = ""
    /\ sanitized = <<>>
    /\ UploadIdle

SpecTag == InitTag /\ [][apply_metadata_to_mp3]_vars

(***************************************************************************)
(* sanitize_filename(filename): re.sub(r'[\\/*?:"<>|]', "_", filename), as *)
(* youtube_to_mp3_yt_dlp.py and youtube_to_mp3.py each define it.          *)
(***************************************************************************)
MaxNameLen == 2

\* the character class of the pattern in youtube_to_mp3_yt_dlp.py
InvalidChars == {"\\", "/", "*", "?", ":", "\"", "<", ">", "|"}

\* the character class of the pattern in youtube_to_mp3.py
PytubeInvalidChars == {"\\", "/", "*", "?", ":", "\"", "<", ">", "|"}

\* re.sub(class, "_", s): every match is replaced, the rest is copied
RECURSIVE Substitute(_, _)
Substitute(s, class) ==
    IF s = "" THEN ""
    ELSE (IF CharAt(s, 1) \in class THEN "_" ELSE CharAt(s, 1))
            \o Substitute(SubSeq(s, 2, Len(s)), class)

\* a substitution that removes the matches
RECURSIVE RemoveInvalid(_)
RemoveInvalid(s) ==
    IF s = "" THEN ""
    ELSE (IF CharAt(s, 1) \in InvalidChars THEN "" ELSE CharAt(s, 1))
            \o RemoveInvalid(SubSeq(s, 2, Len(s)))

sanitize_filename(s) == Substitute(s, InvalidChars)

pytube_sanitize_filename(s) == Substitute(s, PytubeInvalidChars)

\* the characters file names are made of here
NameChars == InvalidChars \cup {"a", "_", " ", "."}

RECURSIVE Names(_)
Names(n) ==
    IF n = 0 THEN {""}
    ELSE Names(n - 1) \cup {c \o t : c \in NameChars, t \in {x \in Names(n - 1) : Len(x) = n - 1}}

\* both scripts sanitize the name
Sanitize ==
    /\ sanitized = <<>>
    /\ sanitized' = <<sanitize_filename(filename), pytube_sanitize_filename(filename)>>
    /\ UNCHANGED <<mainVars, fetch, tagging, filename, transfer, watch>>

\* the sanitized name is sanitized once more
SanitizeAgain ==
    /\ Len(sanitized) = 2
    /\ sanitized' = Append(sanitized, sanitize_filename(sanitized[1]))
    /\ UNCHANGED <<mainVars, fetch, tagging, filename, transfer, watch>>

SanitizeNext == Sanitize \/ SanitizeAgain

InitName ==
    /\ MainIdle
    /\ fetch = NoThumb
    /\ tagging = NoTagging
    /\ filename \in Names(MaxNameLen)
    /\ sanitized = <<>>
    /\ UploadIdle

SpecName == InitName /\ [][SanitizeNext]_vars

(***************************************************************************)
(* transfer_to_server(file_path, remote_folder): the staged file is copied *)
(* to song.mp3 next to it, scp sends the copy under the sanitized original *)
(* name, and the copy is deleted.  transfer.dir is the directory of the    *)
(* file: it maps a file name to the file's content, "" when there is no    *)
(* such file.                                                              *)
(***************************************************************************)
TransferNames == {"song.mp3", "a.mp3", "b?.mp3"}

RemoteFolders == {"Music", "."}

\* local_file.parent / "song.mp3"
TempName == "song.mp3"

AudioOf(n) == "audio of " \o n

EmptyDir == [n \in TransferNames |-> ""]

\* Path.exists()
Exists(dir, n) == dir[n] # ""

\* the directories the function can be called in: the file is there or not,
\* and another song.mp3 may lie next to it
TransferDirs(n) ==
    {EmptyDir, [EmptyDir EXCEPT ![n] = AudioOf(n)]}
        \cup (IF n = TempName THEN {}
              ELSE {[EmptyDir EXCEPT ![n] = AudioOf(n), ![TempName] = "other audio"]})

\* f"{SSH_USER}@{SSH_HOST}:{REMOTE_BASE_PATH}/{remote_folder}/{sanitized_filename}"
RemotePath(remote_folder, n) == "remote/" \o remote_folder \o "/" \o sanitize_filename(n)

\* finally: if temp_file.exists(): temp_file.unlink(), a failure only logged
Finally(t, unlinked) ==
    [t EXCEPT !.pc = "returned",
              !.dir = IF Exists(t.dir, t.temp_file) /\ unlinked
                      THEN [t.dir EXCEPT ![t.temp_file] = ""] ELSE t.dir]

\* local_file.exists() raises before the try block: nothing is caught here
TransferStatRaises ==
    /\ transfer.pc = "call"
    /\ transfer' = [transfer EXCEPT !.pc = "raised"]
    /\ UNCHANGED <<mainVars, fetch, tagging, filename, sanitized, watch>>

\* if not local_file.exists(): return False
TransferNotFound ==
    /\ transfer.pc = "call"
    /\ ~Exists(transfer.dir, transfer.file_path)
    /\ transfer' = [transfer EXCEPT !.pc = "returned", !.ret = FALSE]
    /\ UNCHANGED <<mainVars, fetch, tagging, filename, sanitized, watch>>

\* shutil.copy2(local_file, temp_file): raises SameFileError when both are
\* the same file, may fail otherwise with or without a partial copy
TransferCopy ==
    /\ transfer.pc = "call"
    /\ Exists(transfer.dir, transfer.file_path)
    /\ LET t == [transfer EXCEPT !.temp_file = TempName]
       IN  IF transfer.file_path = TempName
           THEN transfer' = [t EXCEPT !.pc = "finally"]
           ELSE \E outcome \in {"copied", "failed", "partial"} :
                  transfer' =
                    CASE outcome = "copied" ->
                           [t EXCEPT !.pc = "scp", !.copied = TRUE,
                                     !.dir[TempName] = t.dir[t.file_path]]
                      [] outcome = "failed" -> [t EXCEPT !.pc = "finally"]
                      [] outcome = "partial" ->
                           [t EXCEPT !.pc = "finally", !.dir[TempName] = "partial copy"]
    /\ UNCHANGED <<mainVars, fetch, tagging, filename, sanitized, watch>>

\* subprocess.run(scp_cmd): return result.returncode == 0
TransferScp ==
    /\ transfer.pc = "scp"
    /\ \E code \in {0, 1, 255} :
          transfer' = [transfer EXCEPT
                         !.pc = "finally",
                         !.scp = <<[src |-> transfer.temp_file,
                                    dst |-> RemotePath(transfer.remote_folder,
                                                       transfer.file_path)]>>,
                         !.returncode = code,
                         !.ret = (code = 0)]
    /\ UNCHANGED <<mainVars, fetch, tagging, filename, sanitized, watch>>

\* subprocess.run raises (no scp program): except Exception: return False
TransferScpRaises ==
    /\ transfer.pc = "scp"
    /\ transfer' = [transfer EXCEPT !.pc = "finally", !.ret = FALSE]
    /\ UNCHANGED <<mainVars, fetch, tagging, filename, sanitized, watch>>

TransferFinally ==
    /\ transfer.pc = "finally"
    /\ \E unlinked \in BOOLEAN : transfer' = Finally(transfer, unlinked)
    /\ UNCHANGED <<mainVars, fetch, tagging, filename, sanitized, watch>>

transfer_to_server ==
    \/ TransferStatRaises \/ TransferNotFound \/ TransferCopy
    \/ TransferScp \/ TransferScpRaises \/ TransferFinally

InitTransfer ==
    /\ MainIdle
    /\ fetch = NoThumb
    /\ tagging = NoTagging
    /\ filename = ""
    /\ sanitized = <<>>
    /\ watch = NoWatch
    /\ \E n \in TransferNames, folder \in RemoteFolders :
          \E dir \in TransferDirs(n) :
             transfer = [NoTransfer EXCEPT !.pc = "call", !.file_path = n,
                                           !.remote_folder = folder, !.dir = dir,
                                           !.before = dir]

SpecTransfer == InitTransfer /\ [][transfer_to_server]_vars

(***************************************************************************)
(* download_audio of the pytube script: the URL is cleaned up before the   *)
(* video is fetched.  watch.url is the URL passed in, watch.used the URL   *)
(* the function goes on with, and the one it goes on with when handed that *)
(* URL again.                                                              *)
(***************************************************************************)
MaxParams == 2

\* position of the first occurrence of the character c in s, 0 when none
Find(s, c) ==
    LET hits == {k \in 1..Len(s) : CharAt(s, k) = c}
    IN  IF hits = {} THEN 0 ELSE CHOOSE k \in hits : \A z \in hits : k <= z

\* s.split(sep) for a one-character separator
RECURSIVE Split(_, _)
Split(s, sep) ==
    LET p == Find(s, sep)
    IN  IF p = 0 THEN <<s>>
        ELSE <<SubSeq(s, 1, p - 1)>> \o Split(SubSeq(s, p + 1, Len(s)), sep)

\* s.startswith(prefix)
StartsWith(s, prefix) == Len(s) >= Len(prefix) /\ SubSeq(s, 1, Len(prefix)) = prefix

\* for param in params.split("&"): if param.startswith("v="): video_id = param[2:]; break
RECURSIVE VideoId(_)
VideoId(parts) ==
    IF parts = <<>> THEN ""
    ELSE IF StartsWith(Head(parts), "v=") THEN SubSeq(Head(parts), 3, Len(Head(parts)))
    ELSE VideoId(Tail(parts))

WatchPrefix == "https://www.youtube.com/watch?v="

\* if "?" in url: base_url, params = url.split("?", 1); ...
CleanUpUrl(url) ==
    LET p == Find(url, "?")
        base_url == SubSeq(url, 1, p - 1)
        params == SubSeq(url, p + 1, Len(url))
        video_id == VideoId(Split(params, "&"))
    IN  IF p = 0 THEN url
        ELSE IF Contains(params, "v=")
             THEN IF video_id # "" THEN WatchPrefix \o video_id ELSE url
        ELSE base_url

\* the URLs handed in: a host form and up to MaxParams query parameters
UrlBases == {"https://youtu.be/abc", "https://www.youtube.com/watch"}

UrlParams == {"v=id1", "v=id2", "v=", "list=PL", "rev=1", "t"}

RECURSIVE Join(_, _)
Join(parts, sep) ==
    IF parts = <<>> THEN ""
    ELSE IF Len(parts) = 1 THEN parts[1]
    ELSE parts[1] \o sep \o Join(Tail(parts), sep)

WatchUrls ==
    UrlBases \cup {b \o "?" \o Join(q, "&") : b \in UrlBases, q \in SeqsUpTo(UrlParams, MaxParams)}

\* download_audio(url) up to the point where YouTube(url) is created
CleanUp ==
    /\ watch.pc = "call"
    /\ watch' = [watch EXCEPT !.pc = "fetch", !.used = <<CleanUpUrl(watch.url)>>]
    /\ UNCHANGED <<mainVars, fetch, tagging, filename, sanitized, transfer>>

\* download_audio is handed the URL it went on with
CleanUpAgain ==
    /\ watch.pc = "fetch"
    /\ watch' = [watch EXCEPT !.pc = "again",
                              !.used = Append(watch.used, CleanUpUrl(watch.used[1]))]
    /\ UNCHANGED <<mainVars, fetch, tagging, filename, sanitized, transfer>>

pytube_download_audio == CleanUp \/ CleanUpAgain

InitWatch ==
    /\ MainIdle
    /\ fetch = NoThumb
    /\ tagging = NoTagging
    /\ filename = ""
    /\ sanitized = <<>>
    /\ transfer = NoTransfer
    /\ \E u \in WatchUrls : watch = [NoWatch EXCEPT !.pc = "call", !.url = u]

SpecWatch == InitWatch /\ [][pytube_download_audio]_vars

(***************************************************************************)
(* Properties of process_tracks (specification Spec).                      *)
(***************************************************************************)
Range(q) == {q[k] : k \in 1..Len(q)}

\* the run is over: process_tracks returned or an uncaught exception ended it
Ended == pc \in {"returned", "traceback"}

\* the loop is over and the summary is being or has been produced
LoopDone == pc \in {"report", "returned"}

Has(name) == \E k \in 1..Len(steps) : steps[k] = name

\* C1: a failure while handling one item never aborts the batch: when the run
\* is over, every item of the track list has been handled, that is delivered
\* or recorded in the failed list.
C1_EveryItemHandled ==
    Ended => \A k \in 1..Len(tracks) : k \in delivered \/ k \in Range(blame)

\* C2: with metadata enabled, an item whose audio file was downloaded and
\* whose save/transfer step succeeded is counted successful and has no record
\* in the failed list, whatever the thumbnail fetch and the tag write gave.
C2_DeliveredItemHasNoFailure ==
    apply_metadata =>
        /\ successful_downloads = Cardinality(delivered)
        /\ \A k \in delivered : k \notin Range(blame)

StepRank(name) ==
    CASE name = "enumerate" -> 1 [] name = "mkdtemp" -> 2 [] name = "download" -> 3
      [] name = "map" -> 4 [] name = "thumbnail" -> 5 [] name = "tag" -> 6
      [] name = "save" -> 7 [] name = "cleanup" -> 8

\* the steps of the current item were executed in pipeline order; thumbnail
\* fetch and tag write only follow a successful download; with metadata
\* enabled the save step follows the tag write
StepsOrdered ==
    /\ \A a, b \in 1..Len(steps) : a < b => StepRank(steps[a]) < StepRank(steps[b])
    /\ (Has("thumbnail") \/ Has("tag") \/ Has("save")) => (Has("download") /\ Has("map"))
    /\ pc \in {"thumbnail", "tag", "save"} => file_path # ""
    /\ (Has("save") /\ apply_metadata) => Has("tag")
    /\ (Has("thumbnail") \/ Has("tag")) => apply_metadata

\* item i has nothing left to do: its scratch directory was dealt with, or it
\* failed before it had one
ItemOver ==
    \/ i = 0
    \/ (steps # <<>> /\ steps[Len(steps)] = "cleanup")
    \/ (steps \in {<<"enumerate">>, <<"enumerate", "mkdtemp">>} /\ i \in Range(blame))

\* C3: processing is strictly sequential: within an item the steps occur in
\* the order download, map, thumbnail, tag, save; and the next item is only
\* started when the last step of the current one has ended.
C3_StrictlySequential ==
    /\ []StepsOrdered
    /\ [][i' # i => (i' = i + 1 /\ ItemOver)]_vars

C3_Witness ==
    /\ i = 2
    /\ steps = <<"enumerate", "mkdtemp", "download", "map", "thumbnail", "tag", "save",
                 "cleanup">>
    /\ 1 \in delivered

\* C4: for every accepted configuration, the empty track list included, the
\* run reaches the end of process_tracks and returns normally.
C4_ReturnsNormally == pc # "traceback"

\* the url and destination a failure record of item k carries
OwnUrl(k) == IF Truthy(tracks[k].url) THEN tracks[k].url ELSE "N/A"

\* C5: when process_tracks ends the failure tally holds, in processing order,
\* exactly one record for each failed item and none for a successful one, each
\* with the item's own URL and destination, and the report written by
\* save_failed_downloads lists exactly these records, numbered from 1.
C5_OneRecordPerFailedItem ==
    LoopDone =>
        /\ \A a, b \in 1..Len(blame) : a < b => blame[a] < blame[b]
        /\ \A k \in 1..Len(blame) :
              /\ blame[k] \notin delivered
              /\ failed_downloads[k].url = OwnUrl(blame[k])
              /\ failed_downloads[k].destination = DestinationOf(tracks[blame[k]])
        /\ \A k \in 1..Len(tracks) : k \in delivered \/ k \in Range(blame)
        /\ report # NoReport => report = ReportOf(failed_downloads)

(***************************************************************************)
(* Properties of the loaders (specification SpecLoad).                     *)
(***************************************************************************)
\* the loader has run
Loaded == pc \notin {"main", "load"}

\* a document that is missing, is not valid JSON or lacks a 'tracks' list
Unusable(doc) == doc.kind # "ok"

\* the documents the selected loader reads
DocsRead ==
    IF args_all THEN {d \in Range(JsonFiles(inputs)) : ~d.template} ELSE {inputs.single}

NothingDownloaded == i = 0 /\ steps = <<>> /\ scratch = {} /\ successful_downloads = 0

\* the position of the first entry of list that is not a mapping
FirstNonDict(list) ==
    IF \A k \in 1..Len(list) : list[k].isdict THEN Len(list) + 1
    ELSE CHOOSE k \in 1..Len(list) : ~list[k].isdict /\ \A z \in 1..(k - 1) : list[z].isdict

HasUrl(t) == Truthy(t.url)

\* the tracks a document adds to the combined list
Contribution(doc) ==
    IF doc.template \/ doc.kind # "ok" THEN <<>>
    ELSE SelectSeq(SubSeq(doc.tracks, 1, FirstNonDict(doc.tracks) - 1), HasUrl)

RECURSIVE Concat(_)
Concat(lists) == IF lists = <<>> THEN <<>> ELSE Head(lists) \o Concat(Tail(lists))

\* the documents load_all_configs reports as processed
FullyLoaded(doc) == ~doc.template /\ doc.kind = "ok" /\ \A k \in 1..Len(doc.tracks) : doc.tracks[k].isdict

\* C6 as stated: in both loading modes an unusable document makes the process
\* exit before any track is downloaded.
C6_UnusableDocumentExits ==
    (Loaded /\ \E d \in DocsRead : Unusable(d)) => (pc = "exit1" /\ NothingDownloaded)

\* C6 as amended: load_config exits on an unusable document before any track is
\* downloaded; load_all_configs skips such a document and exits only when
\* inputs/ is missing or no document contributes a track with a URL.
C6_ExitOnlyWithoutTracks ==
    (Loaded /\ ffmpeg) =>
        /\ ~args_all => (pc = "exit1" <=> Unusable(inputs.single))
        /\ args_all =>
              (pc = "exit1" <=>
                  (~inputs.dir \/ \A d \in Range(JsonFiles(inputs)) : Contribution(d) = <<>>))
        /\ pc = "exit1" => (NothingDownloaded /\ config = NoConfig)
        /\ pc # "exit1" => pc = "loop"

C6_Witness ==
    /\ pc = "loop" /\ args_all
    /\ \E d \in DocsRead : Unusable(d)

\* C7 as stated: the combined list is the concatenation, in visiting order, of
\* the 'tracks' lists of the documents load_all_configs loads.
C7_ConcatenationOfLoadedLists ==
    (pc = "loop" /\ args_all) =>
        config.tracks =
            Concat([k \in 1..Len(JsonFiles(inputs)) |->
                      IF FullyLoaded(JsonFiles(inputs)[k]) THEN JsonFiles(inputs)[k].tracks
                      ELSE <<>>])

\* C7 as amended: the combined list is the concatenation, in visiting order
\* (inputs/ first, then inputs/additions/), of the entries with a URL of each
\* document that is read, up to its first entry that is not a mapping;
\* entries without a URL are dropped, nothing is duplicated or reordered.
C7_ConcatenationOfUrlTracks ==
    (pc = "loop" /\ args_all) =>
        /\ config.tracks =
              Concat([k \in 1..Len(inputs.files) |-> Contribution(inputs.files[k])])
              \o Concat([k \in 1..Len(inputs.additions) |-> Contribution(inputs.additions[k])])
        /\ config.default_destination = "Music"

C7_Witness ==
    /\ pc = "loop" /\ args_all
    /\ Len(inputs.files) = 1 /\ Len(inputs.additions) = 1
    /\ Contribution(inputs.files[1]) # <<>>
    /\ Contribution(inputs.additions[1]) # <<>>
    /\ Contribution(inputs.files[1]) # Contribution(inputs.additions[1])
    /\ Len(config.tracks) = 2

(***************************************************************************)
(* Properties of the tag schema mapper (specification SpecMeta).           *)
(***************************************************************************)
Mapped == pc = "mapped"

\* C8: extract_metadata_from_info is total: it returns a tag record for every
\* source record, malformed fields included, and leaves the record unchanged.
C8_NeverRaises == Mapped => ~mapped.raised

NonEmptyText(v) == v.t = "str" /\ v.s # ""

\* C9: title, artist, album, album_artist and genre are each a non-empty
\* string, and album_artist equals artist.
C9_DisplayFieldsPopulated ==
    (Mapped /\ ~mapped.raised) =>
        /\ NonEmptyText(mapped.md.title)
        /\ NonEmptyText(mapped.md.artist)
        /\ NonEmptyText(mapped.md.album)
        /\ NonEmptyText(mapped.md.albumartist)
        /\ NonEmptyText(mapped.md.genre)
        /\ mapped.md.albumartist = mapped.md.artist

\* a valid 8-digit YYYYMMDD text
ValidYmd(s) ==
    /\ Len(s) = 8 /\ AllDigits(s)
    /\ ParseNat(SubSeq(s, 1, 4)) >= 1
    /\ ParseNat(SubSeq(s, 5, 6)) \in 1..12
    /\ ParseNat(SubSeq(s, 7, 8)) \in
          1..DaysInMonth(ParseNat(SubSeq(s, 1, 4)), ParseNat(SubSeq(s, 5, 6)))

\* C10: a valid YYYYMMDD upload date gives date YYYY-MM-DD and year YYYY; any
\* other non-empty text gives date = the text and year = its first 4
\* characters (null when shorter); an absent upload date sets neither.
C10_DateMapping ==
    (Mapped /\ ~mapped.raised) =>
        LET u == info.upload_date
            md == mapped.md
        IN  /\ u.t = "absent" => (md.date = Absent /\ md.year = Absent)
            /\ (u.t = "str" /\ u.s # "") =>
                  IF ValidYmd(u.s)
                  THEN /\ md.date = PyStr(SubSeq(u.s, 1, 4) \o "-" \o SubSeq(u.s, 5, 6)
                                            \o "-" \o SubSeq(u.s, 7, 8))
                       /\ md.year = PyStr(SubSeq(u.s, 1, 4))
                  ELSE /\ md.date = u
                       /\ md.year = IF Len(u.s) >= 4 THEN PyStr(SubSeq(u.s, 1, 4)) ELSE PyNone

\* the keywords that mark a tag as a music genre
MusicKeywords ==
    {"music", "song", "pop", "rock", "hip hop", "electronic", "jazz", "classical"}

Matches(tag) == tag.t = "str" /\ \E kw \in MusicKeywords : Contains(Lower(tag.s), kw)

NonEmptyList(v) == v.t = "list" /\ v.l # <<>>

\* C11: a non-empty category list gives genre = its first entry whatever the
\* tags are; otherwise existing tags give the first tag whose lowercase form
\* contains a keyword, "Music" when none does; neither gives "Music".
C11_GenreMapping ==
    (Mapped /\ ~mapped.raised) =>
        LET c == info.categories
            t == info.tags
            genre == mapped.md.genre
        IN  IF NonEmptyList(c) THEN genre = c.l[1]
            ELSE IF NonEmptyList(t)
            THEN IF \E k \in 1..Len(t.l) : Matches(t.l[k])
                 THEN \E k \in 1..Len(t.l) :
                         /\ Matches(t.l[k]) /\ genre = t.l[k]
                         /\ \A z \in 1..(k - 1) : ~Matches(t.l[z])
                 ELSE genre = PyStr("Music")
            ELSE genre = PyStr("Music")

C11_Witness ==
    /\ Mapped /\ ~mapped.raised
    /\ ~NonEmptyList(info.categories) /\ NonEmptyList(info.tags)
    /\ ~Matches(info.tags.l[1])
    /\ mapped.md.genre = PyStr("rock anthem")

\* d * 1000 rounded to the nearest integer, for d = k / FloatScale
RoundedMs(v) ==
    IF v.t = "int" THEN v.n * 1000
    ELSE (v.n * 1000 + FloatScale \div 2) \div FloatScale

\* C12: a record with a numeric duration d has duration_ms = the decimal
\* string of d * 1000 rounded to the nearest integer; an absent duration
\* leaves duration_ms unset.
C12_DurationRounded ==
    (Mapped /\ ~mapped.raised) =>
        /\ info.duration.t \in {"int", "float"} =>
              mapped.md.length = PyStr(ToString(RoundedMs(info.duration)))
        /\ info.duration.t = "absent" => mapped.md.length = Absent

\* a count that is present in the source record
CountPresent(v) == v.t = "int"

\* the statistics block for the counts that are present
StatsBlock(view_count, like_count) ==
    "[Stats: "
    \o (IF CountPresent(view_count) THEN "Views: " \o Commas(view_count.n) ELSE "")
    \o (IF CountPresent(view_count) /\ CountPresent(like_count) THEN " | " ELSE "")
    \o (IF CountPresent(like_count) THEN "Likes: " \o Commas(like_count.n) ELSE "")
    \o "]"

\* the description cut to its first 3000 characters
DescriptionHead(description) ==
    IF description.t # "str" THEN ""
    ELSE IF Len(description.s) > 3000 THEN SubSeq(description.s, 1, 3000)
    ELSE description.s

\* C13: the comment starts with the description cut to 3000 characters, and
\* whenever a view count and/or a like count is present a block
\* "[Stats: ...]" listing exactly the counts that are present is appended.
C13_CommentMapping ==
    (Mapped /\ ~mapped.raised) =>
        LET head == DescriptionHead(info.description)
            block == StatsBlock(info.view_count, info.like_count)
            comment == mapped.md.comment
        IN  IF CountPresent(info.view_count) \/ CountPresent(info.like_count)
            THEN /\ comment.t = "str"
                 /\ comment.s \in {head \o sep \o block : sep \in {"", "\n\n"}}
            ELSE IF head # "" THEN comment = PyStr(head)
            ELSE comment \in {Absent, PyNone, PyStr("")}

\* C14 as stated: a pre-selected thumbnail gives thumbnail_url = that value;
\* otherwise a non-empty descriptor list gives the URL of a descriptor of
\* maximal width*height; a record with neither gives null.
C14_ThumbnailSelection ==
    (Mapped /\ ~mapped.raised) =>
        LET t == info.thumbnail
            l == info.thumbnails
            url == mapped.md.thumbnail_url
        IN  IF IsTrue(t) THEN url = t
            ELSE IF NonEmptyList(l)
            THEN \E k \in 1..Len(l.l) :
                    /\ url = Get(l.l[k].url)
                    /\ \A z \in 1..Len(l.l) : Area(l.l[z]) <= Area(l.l[k])
            ELSE url = PyNone

\* C14 as amended: a non-empty thumbnail field gives thumbnail_url = that
\* value; otherwise a non-empty descriptor list gives the URL (null when it has
\* none) of the first descriptor of maximal width*height, a missing width or
\* height counting as 0; otherwise thumbnail_url is the thumbnail field's own
\* value: null when the field is absent or null, "" when it is empty.
C14_ThumbnailSelectionOrOwnValue ==
    (Mapped /\ ~mapped.raised) =>
        LET t == info.thumbnail
            l == info.thumbnails
            url == mapped.md.thumbnail_url
        IN  IF IsTrue(t) THEN url = t
            ELSE IF NonEmptyList(l)
            THEN \E k \in 1..Len(l.l) :
                    /\ url = Get(l.l[k].url)
                    /\ \A z \in 1..Len(l.l) : Area(l.l[z]) <= Area(l.l[k])
                    /\ \A z \in 1..(k - 1) : Area(l.l[z]) < Area(l.l[k])
            ELSE url = (IF t.t = "str" THEN t ELSE PyNone)

C14_Witness ==
    /\ Mapped /\ ~mapped.raised
    /\ ~IsTrue(info.thumbnail)
    /\ NonEmptyList(info.thumbnails) /\ Len(info.thumbnails.l) = 3
    /\ mapped.md.thumbnail_url = PyStr("http://i/large.jpg")

(***************************************************************************)
(* Properties of download_thumbnail (specification SpecThumb).             *)
(***************************************************************************)
\* the image type the content-type header names, "" when it names none
HeaderType(ct) ==
    IF Contains(ct, "image/jpeg") THEN ".jpg"
    ELSE IF Contains(ct, "image/png") THEN ".png"
    ELSE IF Contains(ct, "image/webp") THEN ".webp"
    ELSE ""

\* the image type the URL's suffix names, "" when it names none
SuffixType(url) ==
    IF EndsWith(url, ".jpg") \/ EndsWith(url, ".jpeg") THEN ".jpg"
    ELSE IF EndsWith(url, ".png") THEN ".png"
    ELSE IF EndsWith(url, ".webp") THEN ".webp"
    ELSE ""

\* C15: the type the content-type header names is used whatever the URL
\* suffix is; the suffix is used only when the header names none; JPEG is used
\* when neither names a type.
C15_HeaderBeforeSuffix ==
    fetch.response = "ok" =>
        fetch.ext = IF HeaderType(fetch.content_type) # "" THEN HeaderType(fetch.content_type)
                    ELSE IF SuffixType(fetch.url) # "" THEN SuffixType(fetch.url)
                    ELSE ".jpg"

\* C16: download_thumbnail always returns; it returns None without a request
\* for an absent or empty URL, None when the request fails or the file cannot
\* be written, and a path only once the whole body is in a file of the
\* caller's directory.
C16_PathOnlyAfterWholeBody ==
    /\ fetch.pc \in {"call", "open", "write", "returned"}
    /\ fetch.pc # "returned" => fetch.ret = None
    /\ (fetch.pc = "returned" /\ ~Truthy(fetch.url)) => (fetch.ret = None /\ ~fetch.requested)
    /\ (fetch.response \in RequestFailures \/ fetch.write_error) =>
          (fetch.pc = "returned" /\ fetch.ret = None)
    /\ fetch.ret # None =>
          /\ fetch.response = "ok"
          /\ fetch.file = fetch.ret
          /\ fetch.written = fetch.size
          /\ SubSeq(fetch.ret, 1, Len(TempDir) + 1) = TempDir \o "/"
    /\ (fetch.pc = "returned" /\ fetch.ret = None) =>
          (~Truthy(fetch.url) \/ fetch.response \in RequestFailures \/ fetch.write_error)

C16_Witness ==
    /\ fetch.pc = "returned" /\ fetch.ret = "tmp/thumbnail.png"
    /\ fetch.size = 2 /\ fetch.written = 2

(***************************************************************************)
(* Properties of apply_metadata_to_mp3 (specification SpecTag).            *)
(***************************************************************************)
TagReturned == tagging.pc = "returned"

\* C17: apply_metadata_to_mp3 always returns; it returns false when opening
\* the file, building the frames or saving fails, true only if the save
\* completed, and a failure of the cover image alone does not make it
\* return false.
C17_CoverFailureAloneKeepsTrue ==
    /\ tagging.pc \in {"call", "frames", "cover", "save", "returned"}
    /\ (TagReturned /\ tagging.ret) => tagging.saved
    /\ tagging.failure \in {"open", "frames", "save"} => (TagReturned /\ ~tagging.ret)
    /\ (TagReturned /\ ~tagging.ret) => tagging.failure \in {"open", "frames", "save"}

\* the frames the tag record and the image call for
FrameOf(f) ==
    CASE f = "title" -> "TIT2" [] f = "artist" -> "TPE1" [] f = "album" -> "TALB"
      [] f = "albumartist" -> "TPE2" [] f = "date" -> "TDRC" [] f = "genre" -> "TCON"
      [] f = "tracknumber" -> "TRCK" [] f = "comment" -> "COMM"

Populated(v) == v.t = "str" /\ v.s # ""

ExpectedFrames(md, cover) ==
    {[id |-> FrameOf(f), text |-> md[f].s] :
        f \in {g \in {"title", "artist", "album", "albumartist", "date", "genre",
                      "tracknumber", "comment"} : Populated(md[g])}}
      \cup (IF cover \in {"tmp/thumbnail.jpg", "tmp/thumbnail.PNG", "tmp/thumbnail.webp"}
            THEN {[id |-> "APIC",
                   text |-> CASE cover = "tmp/thumbnail.PNG" -> "image/png"
                              [] cover = "tmp/thumbnail.webp" -> "image/webp"
                              [] OTHER -> "image/jpeg"]}
            ELSE {})

\* C18: after a successful call the file holds exactly one frame per
\* populated field, at most one cover picture, nothing for an unset field and
\* nothing it held before; a second call with the same arguments leaves the
\* same frame set.
C18_FramesDependOnlyOnArguments ==
    (TagReturned /\ tagging.ret) =>
        /\ tagging.frames = ExpectedFrames(tagging.metadata, tagging.cover)
        /\ \A fr \in tagging.frames, other \in tagging.frames :
              fr.id = other.id => fr = other
        /\ tagging.frames \cap OldFrames = {}
        /\ tagging.first_ok => tagging.frames = tagging.first

C18_Witness ==
    /\ TagReturned /\ tagging.ret
    /\ tagging.calls = 2 /\ tagging.first_ok
    /\ tagging.before # {} /\ tagging.first # {}
    /\ Cardinality(tagging.frames) = 3
    /\ \E fr \in tagging.frames : fr.id = "APIC"

(***************************************************************************)
(* Scratch directories of process_tracks (specification Spec).             *)
(***************************************************************************)
\* item i is between the creation and the removal of its scratch directory
Staging == pc \in {"download", "thumbnail", "tag", "save", "cleanup"}

\* C19: an item's scratch directory exists from before its download, at most
\* one scratch directory exists at any moment, it is removed before the next
\* item starts whatever the item's outcome, and none remains at the end.
C19_OneScratchDirectoryAtATime ==
    /\ Staging => scratch = {i}
    /\ ~Staging => scratch = {}

(***************************************************************************)
(* Properties of sanitize_filename (specification SpecName).               *)
(***************************************************************************)
NineChars == {"\\", "/", "*", "?", ":", "\"", "<", ">", "|"}

\* C20: sanitize_filename replaces each of the nine characters by one
\* underscore and leaves every other character unchanged: same length, none
\* of the nine characters left, sanitizing twice changes nothing, and both
\* scripts compute the same result.
C20_SanitizeReplacesNineChars ==
    sanitized # <<>> =>
        /\ Len(sanitized[1]) = Len(filename)
        /\ \A k \in 1..Len(filename) :
              SubSeq(sanitized[1], k, k) =
                  IF SubSeq(filename, k, k) \in NineChars THEN "_" ELSE SubSeq(filename, k, k)
        /\ \A k \in 1..Len(sanitized[1]) : SubSeq(sanitized[1], k, k) \notin NineChars
        /\ sanitized[2] = sanitized[1]
        /\ Len(sanitized) = 3 => sanitized[3] = sanitized[1]

C20_Witness ==
    /\ Len(sanitized) = 3
    /\ filename = "a|"
    /\ sanitized[3] = "a_"

(***************************************************************************)
(* Accounting of process_tracks (specification Spec).                      *)
(***************************************************************************)
\* item k was counted successful / has a record in the failed list
Counted(k) == k \in delivered
Recorded(k) == k \in Range(blame)

\* C21: after the k-th item has been handled, successful_downloads plus the
\* number of failure records is k, and when the loop has ended every item is
\* either counted successful or recorded as failed, never both, never neither.
C21_Accounting ==
    /\ pc = "loop" => successful_downloads + Len(failed_downloads) = i
    /\ LoopDone => \A k \in 1..Len(tracks) : Counted(k) # Recorded(k)

(***************************************************************************)
(* Properties of transfer_to_server (specification SpecTransfer).          *)
(***************************************************************************)
TransferReturned == transfer.pc = "returned"

\* C22: transfer_to_server never removes or alters its source file: scp is
\* run on a temporary copy named song.mp3, the original file is still in
\* place with its content when the function returns, whatever the file's name
\* and the outcome, and the function returns true exactly when scp exited
\* with code 0.
C22_SourceFileKept ==
    (TransferReturned /\ Exists(transfer.before, transfer.file_path)) =>
        /\ transfer.dir[transfer.file_path] = transfer.before[transfer.file_path]
        /\ transfer.scp # <<>> => (transfer.copied /\ transfer.scp[1].src = TempName)
        /\ transfer.ret = (transfer.scp # <<>> /\ transfer.returncode = 0)

(***************************************************************************)
(* Destinations of process_tracks (specification Spec).                    *)
(***************************************************************************)
\* the destination the precedence rule gives item k
RuledDestination(k) ==
    IF all_mode THEN "."
    ELSE IF tracks[k].destination # None THEN tracks[k].destination
    ELSE IF config.default_destination # None THEN config.default_destination
    ELSE "Music"

\* C23: in all mode every item is delivered to the root of outputs/
\* (destination ".") whatever its own label and the default destination are;
\* outside all mode its destination is its own label when given, else the
\* configuration's default_destination, else "Music"; and an item's failure
\* record carries that same destination.
C23_DestinationPrecedence ==
    /\ \A r \in outputs :
          /\ r.folder = RuledDestination(r.item)
          /\ all_mode => (r.root = "outputs" /\ r.folder = ".")
    /\ \A k \in 1..Len(failed_downloads) :
          failed_downloads[k].destination = RuledDestination(blame[k])

\* all mode: a labelled item was saved, another labelled item failed
C23_Witness ==
    /\ all_mode
    /\ \E r \in outputs : tracks[r.item].destination = "Rock"
    /\ \E k \in 1..Len(blame) :
          tracks[blame[k]].destination = "Rock" /\ blame[k] \notin delivered

(***************************************************************************)
(* The file on disk under apply_metadata_to_mp3 (specification SpecTag).   *)
(***************************************************************************)
\* the call failed before its save step
FailedBeforeSave == TagReturned /\ tagging.failure \in {"open", "frames", "cover"} /\ ~tagging.saved

\* C24: apply_metadata_to_mp3 changes the file on disk only in its save step:
\* clearing and adding frames act on the container in memory, and a call that
\* fails before the save step returns false with the file's tags as they were
\* before the call.
C24_DiskChangesOnlyInSave ==
    /\ [](FailedBeforeSave => (~tagging.ret /\ tagging.frames = tagging.before))
    /\ [](tagging.pc \in {"frames", "cover", "save"} => tagging.frames = tagging.before)
    /\ [][tagging'.frames # tagging.frames => (tagging.pc = "save" /\ tagging'.saved)]_vars

\* a frame could not be built after the container in memory was cleared, and
\* the tagged file still has its old frames
C24_Witness ==
    /\ TagReturned /\ ~tagging.ret /\ tagging.failure = "frames"
    /\ tagging.tags = {}
    /\ tagging.frames = OldFrames /\ tagging.before = OldFrames

(***************************************************************************)
(* URL clean-up of the pytube script (specification SpecWatch).            *)
(***************************************************************************)
\* the parameters of the query string of url, as <<name, value>> pairs
QueryOf(url) == SubSeq(url, Find(url, "?") + 1, Len(url))

ParamName(p) == IF Find(p, "=") = 0 THEN p ELSE SubSeq(p, 1, Find(p, "=") - 1)

ParamValue(p) == IF Find(p, "=") = 0 THEN "" ELSE SubSeq(p, Find(p, "=") + 1, Len(p))

QueryParams(url) == IF QueryOf(url) = "" THEN <<>> ELSE Split(QueryOf(url), "&")

\* the positions of the parameters named v that have a value
ValuedV(url) ==
    {k \in 1..Len(QueryParams(url)) :
        ParamName(QueryParams(url)[k]) = "v" /\ ParamValue(QueryParams(url)[k]) # ""}

NamedV(url) == {k \in 1..Len(QueryParams(url)) : ParamName(QueryParams(url)[k]) = "v"}

FirstOf(S) == CHOOSE k \in S : \A z \in S : k <= z

\* C25: a URL without '?' is used unchanged; a URL whose query string has a
\* parameter named v with a non-empty value becomes the watch URL of the value
\* of the first such parameter; a URL whose query string has no parameter
\* named v loses its query string; cleaning a cleaned URL changes nothing.
C25_UrlNormalization ==
    watch.used # <<>> =>
        LET url == watch.url
            out == watch.used[1]
        IN  /\ Find(url, "?") = 0 => out = url
            /\ (Find(url, "?") # 0 /\ ValuedV(url) # {}) =>
                  out = WatchPrefix \o ParamValue(QueryParams(url)[FirstOf(ValuedV(url))])
            /\ (Find(url, "?") # 0 /\ NamedV(url) = {}) =>
                  out = SubSeq(url, 1, Find(url, "?") - 1)
            /\ Len(watch.used) = 2 => watch.used[2] = out

====
